---- MODULE Spec2Model ----
(***************************************************************************)
(* Model of the Cyberdesk operator (handlers/controller.py): the status-   *)
(* driven reconciler cyberdesk_create, the warm-pool claimer               *)
(* get_free_vm_from_pool and the post-bind patch                           *)
(* _ensure_vm_patched_and_running, run by kopf for several Cyberdesk       *)
(* resources concurrently against one Kubernetes API server.               *)
(*                                                                         *)
(* Every Kubernetes / gateway call of a handler is one atomic step; the    *)
(* handler's local variables live between the steps.  kopf applies the     *)
(* handler's accumulated status patch after the handler has returned or    *)
(* raised (KopfApplyPatch).  Python dicts are functions whose domain is    *)
(* the set of present keys; None is Null.                                  *)
(***************************************************************************)
EXTENDS Naturals, Integers, Sequences, FiniteSets, TLC

VARIABLES
    desks,      \* the Cyberdesk resources that exist
    status,     \* Cyberdesk d -> body.status.cyberdesk_create (a dict)
    hstate,     \* Cyberdesk d -> kopf progress of the create handler, or
                \* "deleting" (marked for deletion) / "deleted" (gone)
    retry,      \* Cyberdesk d -> kopf's retry counter of the create handler
    pc,         \* Cyberdesk d -> position of the running handler ("idle" if none)
    cand,       \* Cyberdesk d -> remaining items of the claimer's list result
    assigned,   \* Cyberdesk d -> assigned_vm_name
    cur,        \* Cyberdesk d -> current_labels / current_vmi_labels read at L534
    pend,       \* Cyberdesk d -> patch.status and the way the handler ended
    vms,        \* VM name -> VirtualMachine object
    vmis,       \* VM name -> VirtualMachineInstance object
    clones,     \* clone name -> VirtualMachineClone object
    gateway,    \* instance ids for which the gateway received POST .../ready
    posts,      \* instance id -> number of POST .../ready the operator issued
    now,        \* datetime.now(UTC), in units of 1000 ms
    GATEWAY_BASE_URL,   \* the global set when the operator starts (L149-L171)
    rows,       \* instance id -> status of its row in cyberdesk_instances
    sync,       \* VMI name -> the running vmi_phase_change handler
    seenPhase,  \* VMI name -> status.phase as of the last handled change
    conds,      \* VMI name -> status.conditions of the VMI
    seenConds,  \* VMI name -> status.conditions as of the last handled change
    vmiLabels   \* VMI name -> metadata.labels of the VMI

handlerVars == <<hstate, retry, pc, cand, assigned, cur, pend>>
clusterVars == <<vms, vmis, clones>>
\* what the reconciler neither reads nor writes, but for the gateway URL
watchVars == <<GATEWAY_BASE_URL, rows, sync, seenPhase, conds, seenConds, vmiLabels>>
vars == <<desks, status, hstate, retry, pc, cand, assigned, cur, pend,
          vms, vmis, clones, gateway, posts, now, GATEWAY_BASE_URL,
          rows, sync, seenPhase, conds, seenConds, vmiLabels>>

-----------------------------------------------------------------------------
(* Bounds of the model *)

\* with two Cyberdesks, passes are explored up to this value of kopf's retry
\* counter (kopf itself retries without limit)
MaxRetry == 2

\* the operator starts at a clock value up to this one
MaxClock == 1

\* the readiness of the VMIs changes until this many POSTs have been issued
\* for an instance
MaxPosts == 2

\* the clock is followed up to this value
MaxTime == 2

Desks == {"d1", "d2"}
PoolVMs == {"vma", "vmb"}
\* a clone's target VM is named as the desktop (L652)
VMNames == PoolVMs \cup Desks
\* the API server lists objects in name order
ListOrder == <<"d1", "d2", "vma", "vmb">>

\* spec.timeoutMs of each Cyberdesk
timeoutMs == [d \in Desks |-> IF d = "d1" THEN 1000 ELSE 2000]

-----------------------------------------------------------------------------
(* Python values *)

Null == "None"
EmptyDict == << >>

Get(dict, k) == IF k \in DOMAIN dict THEN dict[k] ELSE Null
Truthy(x) == x # Null /\ x # ""

\* {**a, **b}
DictUnion(a, b) == b @@ a

\* JSON merge patch of a flat object: a key patched with None is removed
MergePatch(obj, p) ==
    LET removed == {k \in DOMAIN p : p[k] = Null}
        written == DOMAIN p \ removed
    IN  [k \in (DOMAIN obj \ removed) \cup written |->
            IF k \in written THEN p[k] ELSE obj[k]]

\* datetime.isoformat() of the clock values
IsoTable == <<"T0", "T1", "T2", "T3", "T4", "T5", "T6", "T7">>
isoformat(t) == IsoTable[t + 1]

\* L879: datetime.fromisoformat raises ValueError for any other string
Parsable(str) == \E i \in 1..Len(IsoTable) : IsoTable[i] = str
fromisoformat(str) == (CHOOSE i \in 1..Len(IsoTable) : IsoTable[i] = str) - 1

-----------------------------------------------------------------------------
(* Constants of controller.py *)

MANAGED_BY == "cyberdesk-operator"
max_clone_wait_retries == 20

L_WARM == "pool.kubevirt.io/warm"
L_IN_USE == "pool.kubevirt.io/in-use"
L_APP == "app"
L_INSTANCE == "cyberdesk-instance"
L_MANAGED == "managed-by"
L_DOMAIN == "kubevirt.io/domain"

CloneOpName(instance_id) ==
    IF instance_id = "d1" THEN "clone-for-d1" ELSE "clone-for-d2"
CloneNames == {CloneOpName(d) : d \in Desks}

-----------------------------------------------------------------------------
(* The status record read at the start of a pass (L468-L471) *)

current_status(d) == status[d]
vm_ref(d) == Get(status[d], "virtualMachineRef")
clone_op_name(d) == Get(status[d], "cloneOperationName")
last_phase(d) == Get(status[d], "lastPhase")

\* L474: the bound steady state
AlreadyProvisioned(d) ==
    Truthy(vm_ref(d)) /\ last_phase(d) \in {"AssignedFromPool", "Cloned", "Running"}

\* L516/L520: neither bound nor cloning: the warm pool is tried
FreshState(d) == ~AlreadyProvisioned(d) /\ ~Truthy(clone_op_name(d))

\* L516: a clone operation is recorded in the status
CloningState(d) == ~AlreadyProvisioned(d) /\ Truthy(clone_op_name(d))

-----------------------------------------------------------------------------
(* The status patches the reconciler writes *)

\* a patch that forgets the expiry
AssignedPatchNoExpiry(d, vm_name, t) ==
    [virtualMachineRef |-> vm_name,
     startTime |-> isoformat(t),
     lastPhase |-> "AssignedFromPool",
     cloneOperationName |-> Null]

\* L591-L598: assignment from the warm pool succeeded
AssignedPatch(d, vm_name, t) ==
    [virtualMachineRef |-> vm_name,
     startTime |-> isoformat(t),
     expiryTime |-> isoformat(t + timeoutMs[d] \div 1000),
     lastPhase |-> "AssignedFromPool",
     cloneOperationName |-> Null]

\* a patch that records the phase without the name
InitiateClonePatchNoName(d) ==
    [lastPhase |-> "CloningInitiated",
     virtualMachineRef |-> Null]

\* L613-L618: no warm VM: record the clone operation's name
InitiateClonePatch(d) ==
    [cloneOperationName |-> CloneOpName(d),
     lastPhase |-> "CloningInitiated",
     virtualMachineRef |-> Null]

\* a patch that leaves the clone name in place
ClonedPatchKeepsCloneName(d, t) ==
    [virtualMachineRef |-> d,
     startTime |-> isoformat(t),
     expiryTime |-> isoformat(t + timeoutMs[d] \div 1000),
     lastPhase |-> "Cloned"]

\* a patch whose expiry forgets the timeout
ClonedPatchExpiresAtStart(d, t) ==
    [virtualMachineRef |-> d,
     startTime |-> isoformat(t),
     expiryTime |-> isoformat(t),
     lastPhase |-> "Cloned",
     cloneOperationName |-> Null]

\* L695-L701: the clone succeeded
ClonedPatch(d, t) ==
    [virtualMachineRef |-> d,
     startTime |-> isoformat(t),
     expiryTime |-> isoformat(t + timeoutMs[d] \div 1000),
     lastPhase |-> "Cloned",
     cloneOperationName |-> Null]

\* a patch that clears the status to start over
CloneFailedPatchReset(d) ==
    [lastPhase |-> Null,
     cloneOperationName |-> Null,
     virtualMachineRef |-> Null]

\* a patch that records the failure and keeps the clone name
CloneFailedPatchKeepsName(d) ==
    DictUnion(current_status(d),
              [lastPhase |-> "CloneFailed",
               virtualMachineRef |-> Null])

\* L711-L716: the clone failed
CloneFailedPatch(d) ==
    DictUnion(current_status(d),
              [lastPhase |-> "CloneFailed",
               cloneOperationName |-> Null,
               virtualMachineRef |-> Null])

\* L735-L740: the clone timed out
CloneTimeoutPatch(d) ==
    DictUnion(current_status(d),
              [lastPhase |-> "CloneTimeout",
               cloneOperationName |-> Null,
               virtualMachineRef |-> Null])

-----------------------------------------------------------------------------
(* The VM patches *)

\* claim labels that mark the VM in use but leave it ready
ClaimLabelsStillReady(labels) ==
    DictUnion(labels, (L_IN_USE :> "true"))

\* L274-L278: the labels of the claim patch, built on the listed labels
ClaimLabels(labels) ==
    DictUnion(labels, (L_IN_USE :> "true") @@ (L_WARM :> "claimed"))

\* L530: top-level labels of the pool path's patch
PoolVMLabels(instance_id) ==
    (L_APP :> "cyberdesk") @@ (L_INSTANCE :> instance_id) @@ (L_MANAGED :> MANAGED_BY)

\* L531: template labels of the pool path's patch
PoolTemplateLabels(instance_id) ==
    (L_APP :> "cyberdesk") @@ (L_INSTANCE :> instance_id)
        @@ (L_MANAGED :> MANAGED_BY) @@ (L_DOMAIN :> instance_id)

\* L413-L439: patch_body of _ensure_vm_patched_and_running
EnsurePatchBody(vm_name) ==
    [labels |-> (L_MANAGED :> MANAGED_BY),
     tmpl |-> (L_APP :> "cyberdesk") @@ (L_INSTANCE :> vm_name)
                @@ (L_MANAGED :> MANAGED_BY) @@ (L_DOMAIN :> vm_name),
     runStrategy |-> "Always",
     hostname |-> vm_name]

\* the API server applying a merge patch {metadata.labels, template labels,
\* runStrategy, hostname, ownerReferences} to a VM object
PatchedVM(vm, body) ==
    [vm EXCEPT !.labels = IF "labels" \in DOMAIN body
                          THEN MergePatch(@, body.labels) ELSE @,
               !.tmpl = IF "tmpl" \in DOMAIN body
                        THEN MergePatch(@, body.tmpl) ELSE @,
               !.runStrategy = IF "runStrategy" \in DOMAIN body
                               THEN body.runStrategy ELSE @,
               !.hostname = IF "hostname" \in DOMAIN body
                            THEN body.hostname ELSE @,
               !.owner = IF "ownerReferences" \in DOMAIN body
                         THEN FALSE ELSE @]

-----------------------------------------------------------------------------
(* Objects of the cluster *)

NoVM ==
    [exists |-> FALSE, labels |-> EmptyDict, tmpl |-> EmptyDict, owner |-> FALSE,
     runStrategy |-> Null, hostname |-> Null, printableStatus |-> Null]

\* a VM of the warm pool, as the pool controller keeps it
WarmVM(printable, inuse) ==
    [exists |-> TRUE,
     labels |-> IF inuse
                THEN (L_WARM :> "ready") @@ (L_APP :> "cyberdesk") @@ (L_IN_USE :> "true")
                ELSE (L_WARM :> "ready") @@ (L_APP :> "cyberdesk"),
     tmpl |-> (L_APP :> "cyberdesk"),
     owner |-> TRUE,
     runStrategy |-> "Always", hostname |-> Null, printableStatus |-> printable]


\* the VM a clone operation restores from the golden snapshot
RestoredVM ==
    [exists |-> TRUE, labels |-> EmptyDict, tmpl |-> EmptyDict, owner |-> FALSE,
     runStrategy |-> "Halted", hostname |-> Null, printableStatus |-> "Stopped"]

NoVMI == [exists |-> FALSE, phase |-> Null, interfaces |-> << >>]
VMI(phase, interfaces) == [exists |-> TRUE, phase |-> phase, interfaces |-> interfaces]

\* the states a VM of the warm pool and its VMI can be in when the operator
\* starts; each interface of a VMI is its ipAddress (None if it has none)
WarmPoolMembers ==
    {[vm |-> WarmVM("Running", FALSE), vmi |-> VMI("Running", <<"10.0.0.5">>)],
     [vm |-> WarmVM("Running", FALSE), vmi |-> VMI("Running", <<Null, "10.0.0.6">>)],
     [vm |-> WarmVM("Running", FALSE), vmi |-> VMI("Scheduling", << >>)],
     [vm |-> WarmVM("Starting", FALSE), vmi |-> NoVMI],
     [vm |-> WarmVM("Running", TRUE), vmi |-> VMI("Running", <<"10.0.0.5">>)]}

\* the warm pools explored: every one for a single Cyberdesk; for two, those
\* whose first VM can be claimed, with a second VM either not claimable or,
\* next to a first VM that is fully ready, fully ready too
WarmPools(existing) ==
    IF Cardinality(existing) = 1
    THEN [PoolVMs -> WarmPoolMembers]
    ELSE {pool \in [PoolVMs -> WarmPoolMembers] :
            /\ pool["vma"].vm = WarmVM("Running", FALSE)
            /\ pool["vma"].vmi.phase \in {"Running", "Scheduling"}
            /\ pool["vma"].vmi.interfaces \in {<<"10.0.0.5">>, << >>}
            /\ pool["vmb"].vm \in {WarmVM("Running", FALSE), WarmVM("Starting", FALSE)}
            /\ pool["vmb"].vmi.interfaces \in {<<"10.0.0.5">>, << >>}
            /\ pool["vmb"].vmi.phase # "Scheduling"
            /\ pool["vmb"].vmi.exists => pool["vma"].vmi.phase = "Running"}

NoClone == [exists |-> FALSE, phase |-> Null, target |-> Null]

-----------------------------------------------------------------------------
(* Initial state: the Cyberdesks have just been created by their users (no  *)
(* status), no handler runs, the pool controller has its VMs prepared.      *)

NoPend == [patch |-> EmptyDict, outcome |-> "none"]
NoCur == [labels |-> EmptyDict, tmpl |-> EmptyDict]

\* L171: the gateway URL of the operator in a cluster
InClusterGateway == "http://gateway.cyberdesk-system.svc.cluster.local:80"

\* L149-L171: in a cluster the URL is the service's; started outside of one
\* it is GATEWAY_TESTING_URL, or None without it.  Both deployments are
\* explored for a single Cyberdesk, the one in a cluster for two.
GatewayUrls(existing) ==
    IF Cardinality(existing) = 1 THEN {InClusterGateway, Null} ELSE {InClusterGateway}

\* the clock values at which the operator starts: each for a single
\* Cyberdesk, the first for two
Clocks(existing) == IF Cardinality(existing) = 1 THEN 0..MaxClock ELSE {0}

\* status.conditions as a list of (type, status)
Cond(type, st) == [type |-> type, status |-> st]

\* the conditions KubeVirt reports for a VMI when the operator starts
ConditionsOf(vmi) ==
    IF ~vmi.exists THEN << >>
    ELSE IF vmi.phase = "Running" /\ vmi.interfaces # << >>
         THEN <<Cond("Ready", "True")>>
         ELSE <<Cond("Ready", "False")>>

NoPosts == [d \in Desks |-> 0]

\* L577, L950: one more POST <base>/cyberdesk/<instance_id>/ready is issued
Posted(instance_id) ==
    [i \in DOMAIN posts |-> IF i = instance_id THEN posts[i] + 1 ELSE posts[i]]

NoSync == [pc |-> "idle", new |-> Null, instance_id |-> Null, current_db |-> Null]

\* the watchers have handled every change so far; each VMI carries the labels
\* its VM's template had when it was created; every desktop has its row
WatchersAtRest ==
    /\ rows = [d \in Desks |-> "pending"]
    /\ sync = [v \in VMNames |-> NoSync]
    /\ seenPhase = [v \in VMNames |-> vmis[v].phase]
    /\ conds = [v \in VMNames |-> ConditionsOf(vmis[v])]
    /\ seenConds = conds
    /\ vmiLabels = [v \in VMNames |-> IF vmis[v].exists THEN vms[v].tmpl ELSE EmptyDict]

Init ==
    /\ desks \in {{"d1"}, Desks}
    /\ status = [d \in Desks |-> EmptyDict]
    /\ hstate = [d \in Desks |-> "pending"]
    /\ retry = [d \in Desks |-> 0]
    /\ pc = [d \in Desks |-> "idle"]
    /\ cand = [d \in Desks |-> << >>]
    /\ assigned = [d \in Desks |-> Null]
    /\ cur = [d \in Desks |-> NoCur]
    /\ pend = [d \in Desks |-> NoPend]
    /\ \E pool \in WarmPools(desks) :
        /\ vms = [v \in VMNames |-> IF v \in PoolVMs THEN pool[v].vm ELSE NoVM]
        /\ vmis = [v \in VMNames |-> IF v \in PoolVMs THEN pool[v].vmi ELSE NoVMI]
    /\ clones = [c \in CloneNames |-> NoClone]
    /\ gateway = {}
    /\ posts = NoPosts
    /\ now \in Clocks(desks)
    /\ GATEWAY_BASE_URL \in GatewayUrls(desks)
    /\ WatchersAtRest

-----------------------------------------------------------------------------
(* How a pass ends *)

ClearLocals(d) ==
    /\ cand' = [cand EXCEPT ![d] = << >>]
    /\ assigned' = [assigned EXCEPT ![d] = Null]
    /\ cur' = [cur EXCEPT ![d] = NoCur]

\* raise kopf.TemporaryError with nothing in patch.status: kopf counts the
\* attempt and calls the handler again later
RaiseTemporaryError(d) ==
    /\ pc' = [pc EXCEPT ![d] = "idle"]
    /\ retry' = [retry EXCEPT ![d] = @ + 1]
    /\ pend' = [pend EXCEPT ![d] = NoPend]
    /\ ClearLocals(d)
    /\ UNCHANGED <<desks, status, hstate>>

\* the handler has set patch.status["cyberdesk_create"] and returns or raises
EndWithPatch(d, patch, outcome) ==
    /\ pc' = [pc EXCEPT ![d] = "commit"]
    /\ pend' = [pend EXCEPT ![d] = [patch |-> patch, outcome |-> outcome]]
    /\ ClearLocals(d)
    /\ UNCHANGED <<desks, status, hstate, retry>>

\* kopf after the handler: the status patch is merged into the resource and
\* the outcome is recorded (return: done; TemporaryError: retry;
\* PermanentError: never called again)
KopfApplyPatch(d) ==
    /\ pc[d] = "commit"
    /\ status' = [status EXCEPT ![d] = MergePatch(@, pend[d].patch)]
    /\ hstate' = [hstate EXCEPT ![d] =
                    CASE pend[d].outcome = "return" -> "succeeded"
                      [] pend[d].outcome = "permanent" -> "failed"
                      [] OTHER -> @]
    /\ retry' = [retry EXCEPT ![d] =
                    IF pend[d].outcome = "temporary" THEN @ + 1 ELSE @]
    /\ pc' = [pc EXCEPT ![d] = "idle"]
    /\ pend' = [pend EXCEPT ![d] = NoPend]
    /\ UNCHANGED <<desks, cand, assigned, cur, clusterVars, gateway, posts, now, watchVars>>

\* the operator process dies while the handler runs: the locals and the
\* unsent patch are lost, nothing of kopf's progress has been stored
Crash(d) ==
    /\ pc[d] # "idle"
    /\ pc' = [pc EXCEPT ![d] = "idle"]
    /\ pend' = [pend EXCEPT ![d] = NoPend]
    /\ ClearLocals(d)
    /\ UNCHANGED <<desks, status, hstate, retry, clusterVars, gateway, posts, now, watchVars>>

\* the passes explored: all of a single Cyberdesk up to one past the clone
\* wait limit, those of two Cyberdesks up to MaxRetry
RetryLimit ==
    IF Cardinality(desks) = 1 THEN max_clone_wait_retries + 1 ELSE MaxRetry

\* L456-L457: kopf calls the create handler of an existing Cyberdesk whose
\* handler has neither succeeded nor failed permanently; retry is the number
\* of attempts before this one.  The handler is registered for creation
\* only, so no pass starts on a Cyberdesk whose handler has returned or that
\* is marked for deletion: the branch of the bound steady state (L474-L513)
\* is entered only on a Cyberdesk that is bound when kopf first calls the
\* handler (SpecSteady).
PassStarts(d) ==
    /\ d \in desks
    /\ pc[d] = "idle" /\ hstate[d] = "pending"
    /\ retry[d] <= RetryLimit

-----------------------------------------------------------------------------
(* get_free_vm_from_pool (L223-L301) *)

\* L237-L243: the VMs the API server returns for the selector
\* pool.kubevirt.io/warm=ready, with the labels and status they have then
ListWarmVMs ==
    LET selected(v) == vms[v].exists /\ Get(vms[v].labels, L_WARM) = "ready"
        names == SelectSeq(ListOrder, selected)
    IN  [i \in 1..Len(names) |->
            [name |-> names[i], labels |-> vms[names[i]].labels,
             printableStatus |-> vms[names[i]].printableStatus]]

\* checks that do not look at the VM's status
ClaimableWhateverStatus(item) ==
    Get(item.labels, L_IN_USE) # "true"

\* L260-L267: the client-side checks of one listed VM
Claimable(item) ==
    /\ Get(item.labels, L_IN_USE) # "true"
    /\ item.printableStatus = "Running"

\* the loop skips the items that fail the checks
SkipUnclaimable(items) == SelectSeq(items, Claimable)

\* L271-L281: patch_body of the claim
ClaimPatchBody(item) ==
    [ownerReferences |-> Null, labels |-> ClaimLabels(item.labels)]

\* L300-L301 and L605-L622: the claimer returns None; the reconciler records
\* the clone operation's name and raises TemporaryError
InitiateClone(d) == EndWithPatch(d, InitiateClonePatch(d), "temporary")

\* the loop goes on with the remaining items, or ends without a VM
ClaimerContinues(d, items) ==
    IF items = << >>
    THEN InitiateClone(d)
    ELSE /\ pc' = [pc EXCEPT ![d] = "claim"]
         /\ cand' = [cand EXCEPT ![d] = items]
         /\ UNCHANGED <<desks, status, hstate, retry, assigned, cur, pend>>

\* L520-L523, L237: a pass in the fresh state lists the warm pool
ListPool(d) ==
    /\ PassStarts(d)
    /\ FreshState(d)
    /\ ClaimerContinues(d, SkipUnclaimable(ListWarmVMs))
    /\ UNCHANGED <<clusterVars, gateway, posts, now, watchVars>>

\* L244-L247: the list call fails
ListPoolError(d) ==
    /\ PassStarts(d)
    /\ FreshState(d)
    /\ RaiseTemporaryError(d)
    /\ UNCHANGED <<clusterVars, gateway, posts, now, watchVars>>

\* L283-L292: the claim patch of the first remaining item is accepted
ClaimVM(d) ==
    /\ pc[d] = "claim"
    /\ LET item == Head(cand[d]) IN
        /\ vms[item.name].exists
        /\ vms' = [vms EXCEPT ![item.name] = PatchedVM(@, ClaimPatchBody(item))]
        /\ assigned' = [assigned EXCEPT ![d] = item.name]
    /\ pc' = [pc EXCEPT ![d] = "getvm"]
    /\ cand' = [cand EXCEPT ![d] = << >>]
    /\ UNCHANGED <<desks, status, hstate, retry, cur, pend, vmis, clones, gateway, posts, now, watchVars>>

\* a claimer that aborts the pass when a claim patch fails
ClaimVMErrorAborts(d) ==
    /\ pc[d] = "claim"
    /\ RaiseTemporaryError(d)
    /\ UNCHANGED <<clusterVars, gateway, posts, now, watchVars>>

\* L293-L298: the claim patch fails; the loop continues
ClaimVMError(d) ==
    /\ pc[d] = "claim"
    /\ ClaimerContinues(d, Tail(cand[d]))
    /\ UNCHANGED <<clusterVars, gateway, posts, now, watchVars>>

-----------------------------------------------------------------------------
(* cyberdesk_create, warm-pool path (L525-L603) *)

\* L534-L536: fetch the assigned VM
GetAssignedVM(d) ==
    /\ pc[d] = "getvm"
    /\ vms[assigned[d]].exists
    /\ cur' = [cur EXCEPT ![d] = [labels |-> vms[assigned[d]].labels,
                                  tmpl |-> vms[assigned[d]].tmpl]]
    /\ pc' = [pc EXCEPT ![d] = "patchvm"]
    /\ UNCHANGED <<desks, status, hstate, retry, cand, assigned, pend,
                   clusterVars, gateway, posts, now, watchVars>>

\* L538-L539: vm_patch_body with the labels merged on the fetched ones
PoolPatchBody(d) ==
    [labels |-> DictUnion(cur[d].labels, PoolVMLabels(d)),
     tmpl |-> DictUnion(cur[d].tmpl, PoolTemplateLabels(d))]

\* L541: patch the assigned VM
PatchAssignedVM(d) ==
    /\ pc[d] = "patchvm"
    /\ vms[assigned[d]].exists
    /\ vms' = [vms EXCEPT ![assigned[d]] = PatchedVM(@, PoolPatchBody(d))]
    /\ pc' = [pc EXCEPT ![d] = "getvmi"]
    /\ UNCHANGED <<desks, status, hstate, retry, cand, assigned, cur, pend,
                   vmis, clones, gateway, posts, now, watchVars>>

\* L583-L585: the fetch or the patch of the assigned VM fails
PoolVMApiError(d) ==
    /\ pc[d] \in {"getvm", "patchvm"}
    /\ RaiseTemporaryError(d)
    /\ UNCHANGED <<clusterVars, gateway, posts, now, watchVars>>

\* L553-L557: the readiness check of the fetched VMI
vmi_ip(vmi) == IF vmi.interfaces # << >> THEN vmi.interfaces[1] ELSE Null
VMIFullyReady(vmi) == Truthy(vmi_ip(vmi)) /\ vmi.phase = "Running"

\* L546-L560: the VMI is Running with an IP
VerifyVMI(d) ==
    /\ pc[d] = "getvmi"
    /\ vmis[assigned[d]].exists
    /\ VMIFullyReady(vmis[assigned[d]])
    /\ pc' = [pc EXCEPT ![d] = "notify"]
    /\ UNCHANGED <<desks, status, hstate, retry, cand, assigned, cur, pend,
                   clusterVars, gateway, posts, now, watchVars>>

\* L557-L559, L562-L565: the VMI is missing, not Running or without IP
VMINotReady(d) ==
    /\ pc[d] = "getvmi"
    /\ ~vmis[assigned[d]].exists \/ ~VMIFullyReady(vmis[assigned[d]])
    /\ RaiseTemporaryError(d)
    /\ UNCHANGED <<clusterVars, gateway, posts, now, watchVars>>

\* L566-L568, L583-L585: another API error while fetching the VMI
GetVMIError(d) ==
    /\ pc[d] = "getvmi"
    /\ RaiseTemporaryError(d)
    /\ UNCHANGED <<clusterVars, gateway, posts, now, watchVars>>

\* L573-L579 and L587-L603: the gateway is notified, then the status is set
NotifyGateway(d) ==
    /\ pc[d] = "notify"
    /\ Truthy(GATEWAY_BASE_URL)
    /\ posts' = Posted(d)
    /\ gateway' = gateway \cup {d}
    /\ EndWithPatch(d, AssignedPatch(d, assigned[d], now), "return")
    /\ UNCHANGED <<clusterVars, now, watchVars>>

\* L577-L581 and L587-L603: the POST fails, which is logged; the status is
\* set all the same
NotifyGatewayFailed(d) ==
    /\ pc[d] = "notify"
    /\ Truthy(GATEWAY_BASE_URL)
    /\ posts' = Posted(d)
    /\ EndWithPatch(d, AssignedPatch(d, assigned[d], now), "return")
    /\ UNCHANGED <<clusterVars, gateway, now, watchVars>>

\* L571-L572 and L587-L603: no gateway URL is configured: the notification
\* is skipped, the status set
NotifyGatewaySkipped(d) ==
    /\ pc[d] = "notify"
    /\ ~Truthy(GATEWAY_BASE_URL)
    /\ EndWithPatch(d, AssignedPatch(d, assigned[d], now), "return")
    /\ UNCHANGED <<clusterVars, gateway, posts, now, watchVars>>

-----------------------------------------------------------------------------
(* cyberdesk_create, clone path (L624-L757) *)

\* a pass that starts with cloneOperationName in the status
ClonePass(d) ==
    /\ PassStarts(d)
    /\ CloningState(d)

clone_obj(d) == clones[clone_op_name(d)]

\* L636-L642: the clone object does not exist (404)
GetCloneNotFound(d) ==
    /\ ClonePass(d)
    /\ ~clone_obj(d).exists
    /\ pc' = [pc EXCEPT ![d] = "createclone"]
    /\ UNCHANGED <<desks, status, hstate, retry, cand, assigned, cur, pend,
                   clusterVars, gateway, posts, now, watchVars>>

\* L676-L679: another API error while fetching the clone object
GetCloneError(d) ==
    /\ ClonePass(d)
    /\ RaiseTemporaryError(d)
    /\ UNCHANGED <<clusterVars, gateway, posts, now, watchVars>>

\* L643-L675: create the clone object clone-for-<name> with target <name>
CreateClone(d) ==
    /\ pc[d] = "createclone"
    /\ ~clones[clone_op_name(d)].exists
    /\ clones' = [clones EXCEPT ![clone_op_name(d)] =
                    [exists |-> TRUE, phase |-> Null, target |-> d]]
    /\ RaiseTemporaryError(d)
    /\ UNCHANGED <<vms, vmis, gateway, posts, now, watchVars>>

\* L670, L750-L753: the create call fails
CreateCloneError(d) ==
    /\ pc[d] = "createclone"
    /\ RaiseTemporaryError(d)
    /\ UNCHANGED <<clusterVars, gateway, posts, now, watchVars>>

\* L686-L689: the clone has phase Succeeded
CloneSucceeded(d) ==
    /\ ClonePass(d)
    /\ clone_obj(d).exists /\ clone_obj(d).phase = "Succeeded"
    /\ pc' = [pc EXCEPT ![d] = "finalize"]
    /\ UNCHANGED <<desks, status, hstate, retry, cand, assigned, cur, pend,
                   clusterVars, gateway, posts, now, watchVars>>

\* L689 (L441-L449) and L691-L706: the target VM is patched, the status set
FinalizeClonedVM(d) ==
    /\ pc[d] = "finalize"
    /\ vms[d].exists
    /\ vms' = [vms EXCEPT ![d] = PatchedVM(@, EnsurePatchBody(d))]
    /\ EndWithPatch(d, ClonedPatch(d, now), "return")
    /\ UNCHANGED <<vmis, clones, gateway, posts, now, watchVars>>

\* L450-L453: the patch of the target VM fails
FinalizeClonedVMError(d) ==
    /\ pc[d] = "finalize"
    /\ RaiseTemporaryError(d)
    /\ UNCHANGED <<clusterVars, gateway, posts, now, watchVars>>

\* L708-L717: the clone has phase Failed
CloneFailed(d) ==
    /\ ClonePass(d)
    /\ clone_obj(d).exists /\ clone_obj(d).phase = "Failed"
    /\ EndWithPatch(d, CloneFailedPatch(d), "permanent")
    /\ UNCHANGED <<clusterVars, gateway, posts, now, watchVars>>

\* L719-L721: the clone has phase Unknown
CloneUnknown(d) ==
    /\ ClonePass(d)
    /\ clone_obj(d).exists /\ clone_obj(d).phase = "Unknown"
    /\ RaiseTemporaryError(d)
    /\ UNCHANGED <<clusterVars, gateway, posts, now, watchVars>>

\* L722: any other phase counts as in progress
InProgress(phase) == phase \notin {"Succeeded", "Failed", "Unknown"}

\* L725: the wait is over
WaitExhausted(d) == retry[d] >= max_clone_wait_retries

\* L742-L744: in progress and within the retry limit
CloneInProgress(d) ==
    /\ ClonePass(d)
    /\ clone_obj(d).exists /\ InProgress(clone_obj(d).phase)
    /\ ~WaitExhausted(d)
    /\ RaiseTemporaryError(d)
    /\ UNCHANGED <<clusterVars, gateway, posts, now, watchVars>>

\* L725-L726: in progress at the retry limit
CloneWaitExhausted(d) ==
    /\ ClonePass(d)
    /\ clone_obj(d).exists /\ InProgress(clone_obj(d).phase)
    /\ WaitExhausted(d)
    /\ pc' = [pc EXCEPT ![d] = "delclone"]
    /\ UNCHANGED <<desks, status, hstate, retry, cand, assigned, cur, pend,
                   clusterVars, gateway, posts, now, watchVars>>

\* L728-L730, L735-L741: the stuck clone object is deleted (or is already
\* gone: 404), the status set to CloneTimeout
DeleteTimedOutClone(d) ==
    /\ pc[d] = "delclone"
    /\ clones' = [clones EXCEPT ![clone_op_name(d)] = NoClone]
    /\ EndWithPatch(d, CloneTimeoutPatch(d), "permanent")
    /\ UNCHANGED <<vms, vmis, gateway, posts, now, watchVars>>

\* L731-L733, L735-L741: the delete fails and is only logged
DeleteTimedOutCloneError(d) ==
    /\ pc[d] = "delclone"
    /\ EndWithPatch(d, CloneTimeoutPatch(d), "permanent")
    /\ UNCHANGED <<clusterVars, gateway, posts, now, watchVars>>

-----------------------------------------------------------------------------
(* The environment *)

\* KubeVirt's clone controller works on a clone object; with Succeeded the
\* target VM has been restored
CloneProgress(c) ==
    /\ clones[c].exists
    /\ \E p \in {"SnapshotInProgress", "Succeeded", "Failed", "Unknown"} :
        /\ \/ clones[c].phase = Null /\ p = "SnapshotInProgress"
           \/ clones[c].phase = "SnapshotInProgress" /\ p # "SnapshotInProgress"
           \/ clones[c].phase = "Unknown" /\ p = "SnapshotInProgress"
        /\ clones' = [clones EXCEPT ![c].phase = p]
        /\ vms' = IF p = "Succeeded"
                  THEN [vms EXCEPT ![clones[c].target] = RestoredVM]
                  ELSE vms
    /\ UNCHANGED <<desks, status, handlerVars, vmis, gateway, posts, now, watchVars>>

\* a VMI that was being scheduled starts running and reports its address
VMIStarts(v) ==
    /\ vmis[v].exists /\ vmis[v].phase = "Scheduling"
    /\ vmis' = [vmis EXCEPT ![v] = VMI("Running", <<"10.0.0.5">>)]
    /\ UNCHANGED <<desks, status, handlerVars, vms, clones, gateway, posts, now, watchVars>>

-----------------------------------------------------------------------------
(* The operator with its environment *)

PoolPath(d) ==
    \/ ListPool(d) \/ ListPoolError(d)
    \/ ClaimVM(d) \/ ClaimVMError(d)
    \/ GetAssignedVM(d) \/ PatchAssignedVM(d) \/ PoolVMApiError(d)
    \/ VerifyVMI(d) \/ VMINotReady(d) \/ GetVMIError(d)
    \/ NotifyGateway(d) \/ NotifyGatewayFailed(d) \/ NotifyGatewaySkipped(d)

ClonePath(d) ==
    \/ GetCloneNotFound(d) \/ GetCloneError(d)
    \/ CreateClone(d) \/ CreateCloneError(d)
    \/ CloneSucceeded(d) \/ FinalizeClonedVM(d) \/ FinalizeClonedVMError(d)
    \/ CloneFailed(d) \/ CloneUnknown(d)
    \/ CloneInProgress(d) \/ CloneWaitExhausted(d)
    \/ DeleteTimedOutClone(d) \/ DeleteTimedOutCloneError(d)

Environment ==
    \/ \E c \in CloneNames : CloneProgress(c)
    \/ \E v \in VMNames : VMIStarts(v)

Next ==
    \/ \E d \in Desks : PoolPath(d) \/ ClonePath(d) \/ KopfApplyPatch(d) \/ Crash(d)
    \/ Environment

Spec == Init /\ [][Next]_vars

-----------------------------------------------------------------------------
(* The operator in a cluster without API errors, where the only disturbance *)
(* is the death of the operator process during a pass: two Cyberdesks, two  *)
(* warm VMs that are Running with an address.                               *)

InitHealthy ==
    /\ Init
    /\ desks = Desks
    /\ \A v \in PoolVMs :
        /\ vms[v] = WarmVM("Running", FALSE)
        /\ vmis[v] = VMI("Running", <<"10.0.0.5">>)

PassWithoutErrors(d) ==
    \/ ListPool(d) \/ ClaimVM(d) \/ GetAssignedVM(d) \/ PatchAssignedVM(d)
    \/ VerifyVMI(d) \/ NotifyGateway(d)
    \/ GetCloneNotFound(d) \/ CreateClone(d) \/ CloneInProgress(d)
    \/ CloneUnknown(d) \/ CloneFailed(d)
    \/ CloneSucceeded(d) \/ FinalizeClonedVM(d)
    \/ KopfApplyPatch(d)

NextHealthy ==
    \/ \E d \in Desks : PassWithoutErrors(d)
    \/ \E c \in CloneNames : CloneProgress(c)

NextCrash == NextHealthy \/ \E d \in Desks : Crash(d)

\* no errors, no crashes
SpecHealthy == InitHealthy /\ [][NextHealthy]_vars

\* no errors, but passes may be aborted
SpecCrash == InitHealthy /\ [][NextCrash]_vars

-----------------------------------------------------------------------------
(* The Phase Synchronizer: vmi_phase_change (L760-L811) with the Supabase   *)
(* helpers get_instance_status and update_instance_status (L192-L217)       *)

\* L84-L93: the members of the enum KubeVirtVMIPhase
KubeVirtVMIPhase ==
    {"Pending", "Scheduling", "Scheduled", "Running", "Succeeded", "Failed", "Unknown"}

\* a mapping that reports a Running VMI as running
PhaseMapRunningIsRunning ==
    [p \in KubeVirtVMIPhase |->
        CASE p \in {"Pending", "Scheduling", "Scheduled"} -> "pending"
          [] p = "Running" -> "running"
          [] p = "Succeeded" -> "terminated"
          [] OTHER -> "error"]

\* L106-L114
VMI_PHASE_TO_SUPABASE_STATUS ==
    [p \in KubeVirtVMIPhase |->
        CASE p = "Pending" -> "pending"
          [] p = "Scheduling" -> "pending"
          [] p = "Scheduled" -> "pending"
          [] p = "Running" -> "pending"
          [] p = "Succeeded" -> "terminated"
          [] p = "Failed" -> "error"
          [] p = "Unknown" -> "error"]

\* L205-L211: target of update_instance_status; KubeVirtVMIPhase(vmi_phase)
\* raises ValueError for a value that is no member
target(vmi_phase) ==
    IF vmi_phase \in KubeVirtVMIPhase
    THEN VMI_PHASE_TO_SUPABASE_STATUS[vmi_phase]
    ELSE "error"

\* L796-L801: the status vmi_phase_change compares the row with
desired(new) ==
    IF new \in KubeVirtVMIPhase
    THEN VMI_PHASE_TO_SUPABASE_STATUS[new]
    ELSE "error"

\* L196-L197: the status of the row with the id, None without such a row
RowStatus(instance_id) ==
    IF instance_id \in DOMAIN rows THEN rows[instance_id] ELSE Null

\* L760: kopf calls the handler of a VMI whose status.phase differs from the
\* value of the last change it handled, with the present value as new
PhaseChanged(v) == sync[v].pc = "idle" /\ vmis[v].phase # seenPhase[v]

\* a filter that looks at the app label only
PhaseChangeFilteredByApp(v) ==
    \/ vmis[v].phase = Null
    \/ Get(vmiLabels[v], L_APP) # "cyberdesk"

\* L763-L788: no new phase, no app label or no cyberdesk-instance label
PhaseChangeFiltered(v) ==
    \/ vmis[v].phase = Null
    \/ Get(vmiLabels[v], L_APP) # "cyberdesk"
    \/ ~Truthy(Get(vmiLabels[v], L_INSTANCE))

\* L763-L788: the handler returns without touching Supabase
PhaseChangeIgnored(v) ==
    /\ PhaseChanged(v)
    /\ PhaseChangeFiltered(v)
    /\ seenPhase' = [seenPhase EXCEPT ![v] = vmis[v].phase]
    /\ UNCHANGED <<desks, status, handlerVars, clusterVars, gateway, posts, now,
                   GATEWAY_BASE_URL, rows, sync, conds, seenConds, vmiLabels>>

\* L774, L791-L793: the change is processed for the instance of the label
PhaseChangeObserved(v) ==
    /\ PhaseChanged(v)
    /\ ~PhaseChangeFiltered(v)
    /\ seenPhase' = [seenPhase EXCEPT ![v] = vmis[v].phase]
    /\ sync' = [sync EXCEPT ![v] =
                  [pc |-> "get", new |-> vmis[v].phase,
                   instance_id |-> Get(vmiLabels[v], L_INSTANCE),
                   current_db |-> Null]]
    /\ UNCHANGED <<desks, status, handlerVars, clusterVars, gateway, posts, now,
                   GATEWAY_BASE_URL, rows, conds, seenConds, vmiLabels>>

\* L803-L807: with the row at the desired status nothing is written
AfterRead(v, current_db) ==
    IF current_db # desired(sync[v].new)
    THEN [sync[v] EXCEPT !.pc = "update", !.current_db = current_db]
    ELSE NoSync

\* L793 (L194-L197): the row is read
GetInstanceStatus(v) ==
    /\ sync[v].pc = "get"
    /\ sync' = [sync EXCEPT ![v] = AfterRead(v, RowStatus(sync[v].instance_id))]
    /\ UNCHANGED <<desks, status, handlerVars, clusterVars, gateway, posts, now,
                   GATEWAY_BASE_URL, rows, seenPhase, conds, seenConds, vmiLabels>>

\* L198-L200: the read fails, which get_instance_status turns into None
GetInstanceStatusError(v) ==
    /\ sync[v].pc = "get"
    /\ sync' = [sync EXCEPT ![v] = AfterRead(v, Null)]
    /\ UNCHANGED <<desks, status, handlerVars, clusterVars, gateway, posts, now,
                   GATEWAY_BASE_URL, rows, seenPhase, conds, seenConds, vmiLabels>>

\* L805 (L213-L215): the row with the id, if there is one, gets the target
UpdateInstanceStatus(v) ==
    /\ sync[v].pc = "update"
    /\ rows' = [i \in DOMAIN rows |->
                  IF i = sync[v].instance_id /\ rows[i] # Null
                  THEN target(sync[v].new) ELSE rows[i]]
    /\ sync' = [sync EXCEPT ![v] = NoSync]
    /\ UNCHANGED <<desks, status, handlerVars, clusterVars, gateway, posts, now,
                   GATEWAY_BASE_URL, seenPhase, conds, seenConds, vmiLabels>>

\* L216-L217: the update fails, which is logged
UpdateInstanceStatusError(v) ==
    /\ sync[v].pc = "update"
    /\ sync' = [sync EXCEPT ![v] = NoSync]
    /\ UNCHANGED <<desks, status, handlerVars, clusterVars, gateway, posts, now,
                   GATEWAY_BASE_URL, rows, seenPhase, conds, seenConds, vmiLabels>>

vmi_phase_change(v) ==
    \/ PhaseChangeIgnored(v) \/ PhaseChangeObserved(v)
    \/ GetInstanceStatus(v) \/ GetInstanceStatusError(v)
    \/ UpdateInstanceStatus(v) \/ UpdateInstanceStatusError(v)

-----------------------------------------------------------------------------
(* The Readiness Notifier: vmi_ready_watcher (L900-L959) *)

\* L917-L921: the first condition of type Ready, as a list of one; the empty
\* list stands for None
ready_condition(new) ==
    LET found == SelectSeq(new, LAMBDA c : c.type = "Ready")
    IN  IF found = << >> THEN << >> ELSE <<Head(found)>>

\* L923-L927
is_ready(new) ==
    ready_condition(new) # << >> /\ ready_condition(new)[1].status = "True"

\* a watcher that never remembers
was_ready_forgotten(old) == FALSE

\* L931-L936: the old snapshot has a condition Ready with status True
was_ready(old) ==
    \E i \in 1..Len(old) : old[i].type = "Ready" /\ old[i].status = "True"

\* L900: kopf calls the handler of a VMI whose status.conditions differ from
\* the value of the last change it handled (old), with the present value as
\* new
ConditionsChanged(v) == conds[v] # seenConds[v]

\* L903-L912: no conditions, no app label or no cyberdesk-instance label
ConditionsFiltered(v) ==
    \/ conds[v] = << >>
    \/ Get(vmiLabels[v], L_APP) # "cyberdesk"
    \/ ~Truthy(Get(vmiLabels[v], L_INSTANCE))

\* L938: Ready has become True
BecameReady(v) ==
    /\ ConditionsChanged(v)
    /\ ~ConditionsFiltered(v)
    /\ is_ready(conds[v]) /\ ~was_ready(seenConds[v])

\* L903-L936: the handler returns without notifying
ReadyWatcherReturns(v) ==
    /\ ConditionsChanged(v)
    /\ ~BecameReady(v)
    /\ seenConds' = [seenConds EXCEPT ![v] = conds[v]]
    /\ UNCHANGED <<desks, status, handlerVars, clusterVars, gateway, posts, now,
                   GATEWAY_BASE_URL, rows, sync, seenPhase, conds, vmiLabels>>

\* L942-L943: no gateway URL is configured: the notification is skipped
ReadyNotifySkipped(v) ==
    /\ BecameReady(v)
    /\ ~Truthy(GATEWAY_BASE_URL)
    /\ seenConds' = [seenConds EXCEPT ![v] = conds[v]]
    /\ UNCHANGED <<desks, status, handlerVars, clusterVars, gateway, posts, now,
                   GATEWAY_BASE_URL, rows, sync, seenPhase, conds, vmiLabels>>

\* L944-L953: the gateway receives the POST for the instance of the label
ReadyNotify(v) ==
    /\ BecameReady(v)
    /\ Truthy(GATEWAY_BASE_URL)
    /\ posts' = Posted(Get(vmiLabels[v], L_INSTANCE))
    /\ gateway' = gateway \cup {Get(vmiLabels[v], L_INSTANCE)}
    /\ seenConds' = [seenConds EXCEPT ![v] = conds[v]]
    /\ UNCHANGED <<desks, status, handlerVars, clusterVars, now,
                   GATEWAY_BASE_URL, rows, sync, seenPhase, conds, vmiLabels>>

\* L954-L959: the POST fails, which is logged
ReadyNotifyFailed(v) ==
    /\ BecameReady(v)
    /\ Truthy(GATEWAY_BASE_URL)
    /\ posts' = Posted(Get(vmiLabels[v], L_INSTANCE))
    /\ seenConds' = [seenConds EXCEPT ![v] = conds[v]]
    /\ UNCHANGED <<desks, status, handlerVars, clusterVars, gateway, now,
                   GATEWAY_BASE_URL, rows, sync, seenPhase, conds, vmiLabels>>

vmi_ready_watcher(v) ==
    \/ ReadyWatcherReturns(v)
    \/ ReadyNotifySkipped(v) \/ ReadyNotify(v) \/ ReadyNotifyFailed(v)

-----------------------------------------------------------------------------
(* KubeVirt and the users of the status store, as the watchers see them *)

\* KubeVirt starts a VM whose runStrategy is Always: the VMI is created with
\* the labels of the VM's template
VMICreated(v) ==
    /\ vms[v].exists /\ vms[v].runStrategy = "Always"
    /\ ~vmis[v].exists
    /\ vmis' = [vmis EXCEPT ![v] = VMI("Pending", << >>)]
    /\ vmiLabels' = [vmiLabels EXCEPT ![v] = vms[v].tmpl]
    /\ conds' = [conds EXCEPT ![v] = << >>]
    /\ UNCHANGED <<desks, status, handlerVars, vms, clones, gateway, posts, now,
                   GATEWAY_BASE_URL, rows, sync, seenPhase, seenConds>>

\* the phases a VMI can go to; WaitingForSync is a phase of KubeVirt that the
\* enum KubeVirtVMIPhase does not have
NextPhases(phase) ==
    CASE phase = "Pending" -> {"Scheduling", "Failed"}
      [] phase = "Scheduling" -> {"Scheduled", "Failed"}
      [] phase = "Scheduled" -> {"Running", "WaitingForSync", "Failed"}
      [] phase = "WaitingForSync" -> {"Running"}
      [] phase = "Running" -> {"Succeeded", "Failed", "Unknown"}
      [] phase = "Unknown" -> {"Running", "Failed"}
      [] OTHER -> {}

\* the conditions with Ready, if present, at False
NotReady(conditions) ==
    [i \in 1..Len(conditions) |->
        IF conditions[i].type = "Ready" THEN Cond("Ready", "False") ELSE conditions[i]]

\* KubeVirt moves a VMI to a next phase; a Running VMI has its address, a
\* VMI that is not Running is not Ready
VMIPhaseChanges(v) ==
    /\ vmis[v].exists
    /\ \E p \in NextPhases(vmis[v].phase) :
        /\ vmis' = [vmis EXCEPT ![v] =
                      VMI(p, IF p = "Running" THEN <<"10.0.0.5">> ELSE @.interfaces)]
        /\ conds' = [conds EXCEPT ![v] = IF p = "Running" THEN @ ELSE NotReady(@)]
    /\ UNCHANGED <<desks, status, handlerVars, vms, clones, gateway, posts, now,
                   GATEWAY_BASE_URL, rows, sync, seenPhase, seenConds, vmiLabels>>

\* the lists of conditions KubeVirt reports for a VMI (one condition of a type)
ConditionLists ==
    {<< >>,
     <<Cond("Ready", "False")>>,
     <<Cond("Ready", "True")>>,
     <<Cond("LiveMigratable", "True")>>,
     <<Cond("LiveMigratable", "True"), Cond("Ready", "False")>>,
     <<Cond("LiveMigratable", "True"), Cond("Ready", "True")>>}

ReportsReady(conditions) ==
    \E i \in 1..Len(conditions) : conditions[i] = Cond("Ready", "True")

\* KubeVirt changes the conditions of a VMI; only a Running VMI is Ready
ReadinessChanges(v) ==
    /\ vmis[v].exists
    /\ \A i \in DOMAIN posts : posts[i] < MaxPosts
    /\ \E c \in ConditionLists :
        /\ c # conds[v]
        /\ ReportsReady(c) => vmis[v].phase = "Running"
        /\ conds' = [conds EXCEPT ![v] = c]
    /\ UNCHANGED <<desks, status, handlerVars, clusterVars, gateway, posts, now,
                   GATEWAY_BASE_URL, rows, sync, seenPhase, seenConds, vmiLabels>>

\* L100, L110: the status running is given to a row by the service behind
\* the gateway, once the desktop's guest is initialised
RowSetRunning(d) ==
    /\ d \in desks /\ rows[d] \notin {Null, "running"}
    /\ vmis[d].exists /\ vmis[d].phase = "Running"
    /\ rows' = [rows EXCEPT ![d] = "running"]
    /\ UNCHANGED <<desks, status, handlerVars, clusterVars, gateway, posts, now,
                   GATEWAY_BASE_URL, sync, seenPhase, conds, seenConds, vmiLabels>>

-----------------------------------------------------------------------------
(* The watchers at work on the VMIs of a desktop d1 whose clone has         *)
(* succeeded (VM d1 patched and set to run) and of a warm VM.               *)

DesktopCloned ==
    /\ desks = {"d1"}
    /\ status = [d \in Desks |->
                   IF d \in desks
                   THEN MergePatch(MergePatch(EmptyDict, InitiateClonePatch(d)),
                                   ClonedPatch(d, 0))
                   ELSE EmptyDict]
    /\ hstate = [d \in Desks |-> IF d \in desks THEN "succeeded" ELSE "pending"]
    /\ retry = [d \in Desks |-> IF d \in desks THEN 2 ELSE 0]
    /\ pc = [d \in Desks |-> "idle"]
    /\ cand = [d \in Desks |-> << >>]
    /\ assigned = [d \in Desks |-> Null]
    /\ cur = [d \in Desks |-> NoCur]
    /\ pend = [d \in Desks |-> NoPend]
    /\ vms = [v \in VMNames |->
                IF v \in desks THEN PatchedVM(RestoredVM, EnsurePatchBody(v))
                ELSE IF v = "vma" THEN WarmVM("Running", FALSE)
                ELSE NoVM]
    /\ vmis = [v \in VMNames |->
                 IF v = "vma" THEN VMI("Running", <<"10.0.0.5">>) ELSE NoVMI]
    /\ clones = [c \in CloneNames |->
                   IF c = CloneOpName("d1")
                   THEN [exists |-> TRUE, phase |-> "Succeeded", target |-> "d1"]
                   ELSE NoClone]
    /\ gateway = {}
    /\ posts = NoPosts
    /\ now = 0
    /\ WatchersAtRest

\* the Phase Synchronizer
InitSync == DesktopCloned /\ GATEWAY_BASE_URL = InClusterGateway

NextSync ==
    \/ \E v \in VMNames :
        \/ vmi_phase_change(v)
        \/ VMICreated(v) \/ VMIPhaseChanges(v)
    \/ \E d \in Desks : RowSetRunning(d)

SpecSync == InitSync /\ [][NextSync]_vars

\* the Readiness Notifier, with and without a gateway URL
InitNotify == DesktopCloned /\ GATEWAY_BASE_URL \in {InClusterGateway, Null}

NextNotify ==
    \E v \in VMNames :
        \/ vmi_ready_watcher(v)
        \/ VMICreated(v) \/ VMIPhaseChanges(v) \/ ReadinessChanges(v)

SpecNotify == InitNotify /\ [][NextNotify]_vars

-----------------------------------------------------------------------------
(* cyberdesk_create in the bound steady state (L474-L513): kopf calls the   *)
(* create handler of a Cyberdesk whose status already holds a vmRef and a   *)
(* bound phase, written by an earlier run or version of the operator.       *)

\* a pass that starts the lifetime anew
SteadyPatchRestartsLifetime(d, t) ==
    LET filled == DictUnion(current_status(d),
                            [startTime |-> isoformat(t),
                             expiryTime |-> isoformat(t + timeoutMs[d] \div 1000)])
    IN  [k \in DOMAIN filled \ {"cloneOperationName"} |-> filled[k]]

\* L482-L500: what the pass puts into patch.status: the status it read, with
\* the times of now if one of them is missing, without cloneOperationName
SteadyPatch(d, t) ==
    LET complete == /\ "startTime" \in DOMAIN current_status(d)
                    /\ "expiryTime" \in DOMAIN current_status(d)
        filled == IF complete
                  THEN current_status(d)
                  ELSE DictUnion(current_status(d),
                                 [startTime |-> isoformat(t),
                                  expiryTime |-> isoformat(t + timeoutMs[d] \div 1000)])
    IN  [k \in DOMAIN filled \ {"cloneOperationName"} |-> filled[k]]

\* L474: a pass that starts with vmRef and a bound phase in the status
SteadyPass(d) ==
    /\ PassStarts(d)
    /\ AlreadyProvisioned(d)

\* L479 (L441-L449), L482-L500, L513: the VM named by vmRef is patched again,
\* the status put back, and the handler returns
EnsureBoundVM(d) ==
    /\ SteadyPass(d)
    /\ vms[vm_ref(d)].exists
    /\ vms' = [vms EXCEPT ![vm_ref(d)] = PatchedVM(@, EnsurePatchBody(vm_ref(d)))]
    /\ EndWithPatch(d, SteadyPatch(d, now), "return")
    /\ UNCHANGED <<vmis, clones, gateway, posts, now, watchVars>>

\* L450-L453, L502-L503: the VM named by vmRef does not exist; the 404 of
\* the patch becomes a TemporaryError inside _ensure_vm_patched_and_running,
\* which the handler raises again (the branch of L504-L508 sees no
\* ApiException)
EnsureBoundVMNotFound(d) ==
    /\ SteadyPass(d)
    /\ ~vms[vm_ref(d)].exists
    /\ RaiseTemporaryError(d)
    /\ UNCHANGED <<clusterVars, gateway, posts, now, watchVars>>

\* L450-L453, L502-L503: the patch of the existing VM fails otherwise
EnsureBoundVMError(d) ==
    /\ SteadyPass(d)
    /\ vms[vm_ref(d)].exists
    /\ RaiseTemporaryError(d)
    /\ UNCHANGED <<clusterVars, gateway, posts, now, watchVars>>

\* somebody deletes a VM behind the operator's back
VMRemoved(v) ==
    /\ vms[v].exists
    /\ \A d \in desks : pc[d] = "idle"
    /\ vms' = [vms EXCEPT ![v] = NoVM]
    /\ UNCHANGED <<desks, status, handlerVars, vmis, clones, gateway, posts, now,
                   watchVars>>

\* L283-L292 and L541: a VM of the warm pool after the claim patch and the
\* pool path's label patch for desktop d
BoundPoolVM(d) ==
    [WarmVM("Running", FALSE) EXCEPT
        !.labels = DictUnion(ClaimLabels(@), PoolVMLabels(d)),
        !.tmpl = DictUnion(@, PoolTemplateLabels(d)),
        !.owner = FALSE]

\* the warm VM each desktop gets from the pool
PoolVMOf(d) == IF d = "d1" THEN "vma" ELSE "vmb"

\* L588-L603, L692-L706: the status of a desktop bound at clock value t from
\* the pool, or by a clone; L482: or such a status without its times
BoundStatuses(d, way, t) ==
    LET full == IF way = "pool"
                THEN MergePatch(EmptyDict, AssignedPatch(d, PoolVMOf(d), t))
                ELSE MergePatch(MergePatch(EmptyDict, InitiateClonePatch(d)),
                                ClonedPatch(d, t))
    IN  {full, [k \in DOMAIN full \ {"startTime", "expiryTime"} |-> full[k]]}

\* every desktop is bound, one way or the other, and kopf is about to call
\* the create handler on it
InitSteady ==
    /\ desks \in {{"d1"}, Desks}
    /\ \E way \in [Desks -> {"pool", "clone"}] :
        /\ status \in [Desks -> UNION {BoundStatuses(d, w, 0) :
                                          d \in Desks, w \in {"pool", "clone"}}]
        /\ \A d \in Desks :
              IF d \in desks
              THEN status[d] \in BoundStatuses(d, way[d], 0)
              ELSE status[d] = MergePatch(EmptyDict, AssignedPatch(d, PoolVMOf(d), 0))
                   /\ way[d] = "pool"
        /\ vms = [v \in VMNames |->
                    IF \E d \in desks : way[d] = "pool" /\ v = PoolVMOf(d)
                    THEN BoundPoolVM(CHOOSE d \in desks : v = PoolVMOf(d))
                    ELSE IF v \in desks /\ way[v] = "clone"
                    THEN PatchedVM(RestoredVM, EnsurePatchBody(v))
                    ELSE NoVM]
    /\ vmis = [v \in VMNames |->
                 IF vms[v].exists /\ v \in PoolVMs
                 THEN VMI("Running", <<"10.0.0.5">>) ELSE NoVMI]
    /\ hstate = [d \in Desks |-> "pending"]
    /\ retry = [d \in Desks |-> 0]
    /\ pc = [d \in Desks |-> "idle"]
    /\ cand = [d \in Desks |-> << >>]
    /\ assigned = [d \in Desks |-> Null]
    /\ cur = [d \in Desks |-> NoCur]
    /\ pend = [d \in Desks |-> NoPend]
    /\ clones = [c \in CloneNames |-> NoClone]
    /\ gateway = {}
    /\ posts = NoPosts
    /\ now \in 0..MaxClock
    /\ GATEWAY_BASE_URL = InClusterGateway
    /\ WatchersAtRest

NextSteady ==
    \/ \E d \in Desks :
        \/ EnsureBoundVM(d) \/ EnsureBoundVMNotFound(d) \/ EnsureBoundVMError(d)
        \/ KopfApplyPatch(d) \/ Crash(d)
    \/ \E v \in VMNames : VMRemoved(v)

SpecSteady == InitSteady /\ [][NextSteady]_vars

-----------------------------------------------------------------------------
(* cyberdesk_delete (L814-L864): kopf calls it on a Cyberdesk marked for    *)
(* deletion, between the passes of the create handler, and lets the         *)
(* resource go once it has returned.                                        *)

\* the user, or the expiry timer, deletes the Cyberdesk: the resource is
\* marked for deletion and the retry counter is that of the delete handler
MarkedForDeletion(d) ==
    /\ hstate' = [hstate EXCEPT ![d] = "deleting"]
    /\ retry' = [retry EXCEPT ![d] = 0]

\* kopf calls the delete handler
DeleteStarts(d) ==
    /\ d \in desks
    /\ hstate[d] = "deleting" /\ pc[d] = "idle"

\* the handler has returned: the resource is gone
DeleteHandled(d) ==
    /\ hstate' = [hstate EXCEPT ![d] = "deleted"]
    /\ desks' = desks \ {d}
    /\ UNCHANGED <<status, retry, pc, cand, assigned, cur, pend>>

\* a VM that deletes the clone object of the desktop as well
DeleteBoundVMAndClone(d) ==
    /\ DeleteStarts(d)
    /\ Truthy(vm_ref(d))
    /\ vms[vm_ref(d)].exists
    /\ vms' = [vms EXCEPT ![vm_ref(d)] = NoVM]
    /\ clones' = [clones EXCEPT ![CloneOpName(d)] = NoClone]
    /\ DeleteHandled(d)
    /\ UNCHANGED <<vmis, gateway, posts, now, watchVars>>

\* L821-L835: the VM named by vmRef is deleted
DeleteBoundVM(d) ==
    /\ DeleteStarts(d)
    /\ Truthy(vm_ref(d))
    /\ vms[vm_ref(d)].exists
    /\ vms' = [vms EXCEPT ![vm_ref(d)] = NoVM]
    /\ DeleteHandled(d)
    /\ UNCHANGED <<vmis, clones, gateway, posts, now, watchVars>>

\* L837-L842: the VM named by vmRef is gone already (404, 410)
DeleteBoundVMGone(d) ==
    /\ DeleteStarts(d)
    /\ Truthy(vm_ref(d))
    /\ ~vms[vm_ref(d)].exists
    /\ DeleteHandled(d)
    /\ UNCHANGED <<clusterVars, gateway, posts, now, watchVars>>

\* a handler that only logs a failed delete of the VM
DeleteBoundVMErrorLogged(d) ==
    /\ DeleteStarts(d)
    /\ Truthy(vm_ref(d))
    /\ vms[vm_ref(d)].exists
    /\ DeleteHandled(d)
    /\ UNCHANGED <<clusterVars, gateway, posts, now, watchVars>>

\* L837-L840: the delete of the VM fails otherwise: TemporaryError, kopf
\* calls the handler again
DeleteBoundVMError(d) ==
    /\ DeleteStarts(d)
    /\ Truthy(vm_ref(d))
    /\ vms[vm_ref(d)].exists
    /\ retry[d] < MaxRetry
    /\ retry' = [retry EXCEPT ![d] = @ + 1]
    /\ UNCHANGED <<desks, status, hstate, pc, cand, assigned, cur, pend,
                   clusterVars, gateway, posts, now, watchVars>>

\* L843-L857, L861-L862: no vmRef but a cloneOperationName: the clone object
\* of that name is deleted, or is gone already (404)
DeleteCloneOp(d) ==
    /\ DeleteStarts(d)
    /\ ~Truthy(vm_ref(d))
    /\ Truthy(clone_op_name(d))
    /\ clones' = [clones EXCEPT ![clone_op_name(d)] = NoClone]
    /\ DeleteHandled(d)
    /\ UNCHANGED <<vms, vmis, gateway, posts, now, watchVars>>

\* L858-L860: the delete of the clone object fails, which is logged
DeleteCloneOpError(d) ==
    /\ DeleteStarts(d)
    /\ ~Truthy(vm_ref(d))
    /\ Truthy(clone_op_name(d))
    /\ clones[clone_op_name(d)].exists
    /\ DeleteHandled(d)
    /\ UNCHANGED <<clusterVars, gateway, posts, now, watchVars>>

\* L863-L864: neither vmRef nor cloneOperationName: nothing to clean up
DeleteNothing(d) ==
    /\ DeleteStarts(d)
    /\ ~Truthy(vm_ref(d))
    /\ ~Truthy(clone_op_name(d))
    /\ DeleteHandled(d)
    /\ UNCHANGED <<clusterVars, gateway, posts, now, watchVars>>

cyberdesk_delete(d) ==
    \/ DeleteBoundVM(d) \/ DeleteBoundVMGone(d) \/ DeleteBoundVMError(d)
    \/ DeleteCloneOp(d) \/ DeleteCloneOpError(d)
    \/ DeleteNothing(d)

\* the user deletes a Cyberdesk
UserDeletes(d) ==
    /\ d \in desks
    /\ hstate[d] # "deleting" /\ pc[d] = "idle"
    /\ MarkedForDeletion(d)
    /\ UNCHANGED <<desks, status, pc, cand, assigned, cur, pend,
                   clusterVars, gateway, posts, now, watchVars>>

\* the VM of a Cyberdesk that is marked for deletion is deleted by somebody
\* else first
BoundVMRemoved(d) ==
    /\ d \in desks /\ hstate[d] = "deleting"
    /\ Truthy(vm_ref(d))
    /\ VMRemoved(vm_ref(d))

\* one Cyberdesk goes through the reconciler and may be deleted at any point
\* between two passes
InitDelete == Init /\ desks = {"d1"} /\ now = 0

NextDelete ==
    \/ Next
    \/ \E d \in Desks : UserDeletes(d) \/ cyberdesk_delete(d) \/ BoundVMRemoved(d)

SpecDelete == InitDelete /\ [][NextDelete]_vars

-----------------------------------------------------------------------------
(* cyberdesk_timeout_check (L867-L896), the timer kopf runs every 60 s on   *)
(* each Cyberdesk, with the teardown that follows an expiry.                *)

\* L870
expiry_str(d) == Get(status[d], "expiryTime")

\* L867: kopf calls the timer of an existing Cyberdesk that is not marked for
\* deletion, between its other handlers
TimerFires(d) ==
    /\ d \in desks
    /\ hstate[d] # "deleting" /\ pc[d] = "idle"

\* an expiry that waits for the clock to pass it
ExpiredStrictly(d, t) == t > fromisoformat(expiry_str(d))

\* L879-L880: datetime.now(UTC) >= expiry_dt
Expired(d, t) == t >= fromisoformat(expiry_str(d))

\* L874-L876: no expiryTime in the status
TimeoutCheckNoExpiry(d) ==
    /\ TimerFires(d)
    /\ ~Truthy(expiry_str(d))
    /\ UNCHANGED vars

\* L879, L891-L892: expiryTime does not parse, which is logged
TimeoutCheckUnparsable(d) ==
    /\ TimerFires(d)
    /\ Truthy(expiry_str(d)) /\ ~Parsable(expiry_str(d))
    /\ UNCHANGED vars

\* L880, L890: not expired yet
TimeoutCheckNotExpired(d) ==
    /\ TimerFires(d)
    /\ Truthy(expiry_str(d)) /\ Parsable(expiry_str(d))
    /\ ~Expired(d, now)
    /\ UNCHANGED vars

\* L880-L889: expired: the Cyberdesk resource is deleted
TimeoutCheckExpired(d) ==
    /\ TimerFires(d)
    /\ Truthy(expiry_str(d)) /\ Parsable(expiry_str(d))
    /\ Expired(d, now)
    /\ MarkedForDeletion(d)
    /\ UNCHANGED <<desks, status, pc, cand, assigned, cur, pend,
                   clusterVars, gateway, posts, now, watchVars>>

\* L893-L896: expired, and the delete fails: TemporaryError, kopf calls the
\* timer again
TimeoutCheckDeleteError(d) ==
    /\ TimerFires(d)
    /\ Truthy(expiry_str(d)) /\ Parsable(expiry_str(d))
    /\ Expired(d, now)
    /\ UNCHANGED vars

cyberdesk_timeout_check(d) ==
    \/ TimeoutCheckNoExpiry(d) \/ TimeoutCheckUnparsable(d)
    \/ TimeoutCheckNotExpired(d)
    \/ TimeoutCheckExpired(d) \/ TimeoutCheckDeleteError(d)

\* L880: time passes
ClockTicks ==
    /\ now < MaxTime
    /\ now' = now + 1
    /\ UNCHANGED <<desks, status, handlerVars, clusterVars, gateway, posts,
                   watchVars>>

\* KubeVirt shuts down the VMI of a deleted VM: it ends as Succeeded, or as
\* Failed
VMIStops(v) ==
    /\ ~vms[v].exists /\ vmis[v].exists
    /\ vmis[v].phase \notin {"Succeeded", "Failed"}
    /\ \E p \in {"Succeeded", "Failed"} :
        vmis' = [vmis EXCEPT ![v] = VMI(p, @.interfaces)]
    /\ conds' = [conds EXCEPT ![v] = NotReady(@)]
    /\ UNCHANGED <<desks, status, handlerVars, vms, clones, gateway, posts, now,
                   GATEWAY_BASE_URL, rows, sync, seenPhase, seenConds, vmiLabels>>

\* L763: the VMI that has ended disappears
VMIRemoved(v) ==
    /\ ~vms[v].exists /\ vmis[v].exists
    /\ vmis[v].phase \in {"Succeeded", "Failed"}
    /\ vmis' = [vmis EXCEPT ![v] = NoVMI]
    /\ conds' = [conds EXCEPT ![v] = << >>]
    /\ vmiLabels' = [vmiLabels EXCEPT ![v] = EmptyDict]
    /\ UNCHANGED <<desks, status, handlerVars, vms, clones, gateway, posts, now,
                   GATEWAY_BASE_URL, rows, sync, seenPhase, seenConds>>

\* L870, L879: the status of a Cyberdesk the timer looks at: bound with or
\* without its times, or bound with a string that is no time
TimerStatuses(d, way) ==
    BoundStatuses(d, way, 0)
    \cup {[s EXCEPT !.expiryTime = "never"] :
            s \in {b \in BoundStatuses(d, way, 0) : "expiryTime" \in DOMAIN b}}

\* a Cyberdesk that was bound at clock value 0, from the pool or by a clone,
\* with its VM and a Running VMI
InitExpiry ==
    /\ desks = {"d1"}
    /\ \E way \in {"pool", "clone"} :
        /\ status \in [Desks -> UNION {TimerStatuses(d, w) :
                                          d \in Desks, w \in {"pool", "clone"}}]
        /\ status["d1"] \in TimerStatuses("d1", way)
        /\ status["d2"] = MergePatch(EmptyDict, AssignedPatch("d2", "vmb", 0))
        /\ vms = [v \in VMNames |->
                    IF way = "pool" /\ v = PoolVMOf("d1") THEN BoundPoolVM("d1")
                    ELSE IF way = "clone" /\ v = "d1"
                    THEN PatchedVM(RestoredVM, EnsurePatchBody(v))
                    ELSE NoVM]
    /\ vmis = [v \in VMNames |->
                 IF vms[v].exists THEN VMI("Running", <<"10.0.0.5">>) ELSE NoVMI]
    /\ hstate = [d \in Desks |-> IF d \in desks THEN "succeeded" ELSE "pending"]
    /\ retry = [d \in Desks |-> 0]
    /\ pc = [d \in Desks |-> "idle"]
    /\ cand = [d \in Desks |-> << >>]
    /\ assigned = [d \in Desks |-> Null]
    /\ cur = [d \in Desks |-> NoCur]
    /\ pend = [d \in Desks |-> NoPend]
    /\ clones = [c \in CloneNames |-> NoClone]
    /\ gateway = {}
    /\ posts = NoPosts
    /\ now \in 0..MaxClock
    /\ GATEWAY_BASE_URL = InClusterGateway
    /\ WatchersAtRest

NextExpiry ==
    \/ ClockTicks
    \/ \E d \in Desks :
        \/ cyberdesk_timeout_check(d)
        \/ DeleteBoundVM(d) \/ DeleteBoundVMGone(d) \/ DeleteBoundVMError(d)
        \/ BoundVMRemoved(d)
    \/ \E v \in VMNames :
        \/ VMIStops(v) \/ VMIRemoved(v)
        \/ vmi_phase_change(v)

SpecExpiry == InitExpiry /\ [][NextExpiry]_vars

-----------------------------------------------------------------------------
(* The reconciler next to another actor that labels the VMs: the labels of  *)
(* a VM are shared with the pool controller and with administrators.        *)

\* a label key the operator never sets
L_FOREIGN == "team"

\* L274-L278, L530-L531, L418, L427-L430: the keys the operator means to set
OperatorLabelKeys == {L_WARM, L_IN_USE, L_APP, L_INSTANCE, L_MANAGED, L_DOMAIN}

\* another actor puts its label on a VM, or changes the value it had put; it
\* labels one VM only
LabelChanged(v) ==
    /\ vms[v].exists
    /\ \A w \in VMNames \ {v} : L_FOREIGN \notin DOMAIN vms[w].labels
    /\ \E val \in {"blue", "green"} :
        /\ Get(vms[v].labels, L_FOREIGN) = (IF val = "blue" THEN Null ELSE "blue")
        /\ vms' = [vms EXCEPT ![v].labels = DictUnion(@, (L_FOREIGN :> val))]
    /\ UNCHANGED <<desks, status, handlerVars, vmis, clones, gateway, posts, now,
                   watchVars>>

\* one Cyberdesk goes through the reconciler while the labels change; the
\* first VM of the warm pool can be claimed
InitLabels ==
    /\ Init
    /\ desks = {"d1"} /\ now = 0
    /\ vms["vma"] = WarmVM("Running", FALSE)
    /\ vmis["vma"].interfaces \in {<<"10.0.0.5">>, << >>}

NextLabels ==
    \/ Next
    \/ \E v \in VMNames : LabelChanged(v)

SpecLabels == InitLabels /\ [][NextLabels]_vars

-----------------------------------------------------------------------------
(* The two watchers together on the VMI of one VM: the VM of a desktop, a   *)
(* VM of the warm pool, or a VM that is none of the operator's.             *)

\* a VM of another application in the namespace, with the labels its
\* template gives to the VMI
ForeignVM(tmpl) ==
    [exists |-> TRUE, labels |-> EmptyDict, tmpl |-> tmpl, owner |-> FALSE,
     runStrategy |-> "Always", hostname |-> Null, printableStatus |-> "Running"]

\* L770, L776, L910: the VMs whose VMI the watchers see: the cloned VM of
\* d1, a pool VM bound to d1, a warm VM of the pool (app label, no instance
\* label), and foreign VMs without app label or with another one
WatchedVMs ==
    {[name |-> "d1", vm |-> PatchedVM(RestoredVM, EnsurePatchBody("d1"))],
     [name |-> "vma", vm |-> BoundPoolVM("d1")],
     [name |-> "vma", vm |-> WarmVM("Running", FALSE)],
     [name |-> "vmb", vm |-> ForeignVM(EmptyDict)],
     [name |-> "vmb", vm |-> ForeignVM((L_APP :> "other") @@ (L_INSTANCE :> "d1"))],
     [name |-> "vmb", vm |-> ForeignVM((L_INSTANCE :> "d1"))]}

\* desktop d1 is bound; one VM exists and KubeVirt is about to start it
InitFilter ==
    /\ desks = {"d1"}
    /\ \E w \in WatchedVMs :
        /\ vms = [v \in VMNames |-> IF v = w.name THEN w.vm ELSE NoVM]
        /\ status = [d \in Desks |->
                       IF d \in desks
                       THEN IF w.name = "vma"
                            THEN MergePatch(EmptyDict, AssignedPatch(d, "vma", 0))
                            ELSE MergePatch(MergePatch(EmptyDict, InitiateClonePatch(d)),
                                            ClonedPatch(d, 0))
                       ELSE EmptyDict]
    /\ vmis = [v \in VMNames |-> NoVMI]
    /\ hstate = [d \in Desks |-> IF d \in desks THEN "succeeded" ELSE "pending"]
    /\ retry = [d \in Desks |-> 0]
    /\ pc = [d \in Desks |-> "idle"]
    /\ cand = [d \in Desks |-> << >>]
    /\ assigned = [d \in Desks |-> Null]
    /\ cur = [d \in Desks |-> NoCur]
    /\ pend = [d \in Desks |-> NoPend]
    /\ clones = [c \in CloneNames |-> NoClone]
    /\ gateway = {}
    /\ posts = NoPosts
    /\ now = 0
    /\ GATEWAY_BASE_URL \in {InClusterGateway, Null}
    /\ WatchersAtRest

NextFilter ==
    \/ \E v \in VMNames :
        \/ vmi_phase_change(v) \/ vmi_ready_watcher(v)
        \/ VMICreated(v) \/ VMIPhaseChanges(v) \/ ReadinessChanges(v)
    \/ \E d \in Desks : RowSetRunning(d)

SpecFilter == InitFilter /\ [][NextFilter]_vars

-----------------------------------------------------------------------------
(* cyberdesk_create on a Cyberdesk whose clone has failed or timed out      *)
(* (L467-L523): kopf calls the create handler of a Cyberdesk whose status   *)
(* holds the phase of a permanent failure, written by an earlier run of the *)
(* operator, and of whose handler it has no record.                         *)

\* L711-L716, L735-L740: the phases of a permanent failure
FailedPhases == {"CloneFailed", "CloneTimeout"}

\* the status after the patch of a permanent failure: the phase alone
FailedStatus(phase) == [lastPhase |-> phase]

\* L708, L727-L733: the clone object left behind: failed; or, after a
\* timeout, deleted or still in progress
FailedClones(phase) ==
    IF phase = "CloneFailed"
    THEN {[exists |-> TRUE, phase |-> "Failed", target |-> "d1"]}
    ELSE {NoClone, [exists |-> TRUE, phase |-> "SnapshotInProgress", target |-> "d1"]}

InitFailed ==
    /\ desks = {"d1"}
    /\ \E phase \in FailedPhases :
        /\ status = [d \in Desks |-> IF d \in desks THEN FailedStatus(phase) ELSE EmptyDict]
        /\ \E c \in FailedClones(phase) :
              clones = [n \in CloneNames |-> IF n = CloneOpName("d1") THEN c ELSE NoClone]
    /\ hstate = [d \in Desks |-> "pending"]
    /\ retry = [d \in Desks |-> 0]
    /\ pc = [d \in Desks |-> "idle"]
    /\ cand = [d \in Desks |-> << >>]
    /\ assigned = [d \in Desks |-> Null]
    /\ cur = [d \in Desks |-> NoCur]
    /\ pend = [d \in Desks |-> NoPend]
    /\ \E pool \in WarmPools(desks) :
        /\ vms = [v \in VMNames |-> IF v \in PoolVMs THEN pool[v].vm ELSE NoVM]
        /\ vmis = [v \in VMNames |-> IF v \in PoolVMs THEN pool[v].vmi ELSE NoVMI]
    /\ gateway = {}
    /\ posts = NoPosts
    /\ now = 0
    /\ GATEWAY_BASE_URL \in GatewayUrls(desks)
    /\ WatchersAtRest

SpecFailed == InitFailed /\ [][Next]_vars

-----------------------------------------------------------------------------
(* The whole life of one Cyberdesk under cyberdesk_create: it is bound,     *)
(* time passes, and kopf calls the create handler on it again.              *)

\* L456, L474: kopf calls the create handler of a Cyberdesk whose handler
\* had returned (it has lost its record of the handler)
HandlerRecalled(d) ==
    /\ d \in desks
    /\ hstate[d] = "succeeded" /\ pc[d] = "idle"
    /\ hstate' = [hstate EXCEPT ![d] = "pending"]
    /\ retry' = [retry EXCEPT ![d] = 0]
    /\ UNCHANGED <<desks, status, pc, cand, assigned, cur, pend,
                   clusterVars, gateway, posts, now, watchVars>>

\* L484, L587, L691: time passes between the passes (a pass reads the clock
\* once)
TimePasses ==
    /\ \A d \in desks : pc[d] = "idle"
    /\ ClockTicks

\* one Cyberdesk; the first VM of the warm pool can be claimed
InitLifetime ==
    /\ Init
    /\ desks = {"d1"}
    /\ GATEWAY_BASE_URL = InClusterGateway
    /\ vms["vma"] = WarmVM("Running", FALSE)
    /\ vmis["vma"].interfaces \in {<<"10.0.0.5">>, << >>}

NextLifetime ==
    \/ \E d \in Desks :
        \/ ListPool(d) \/ ClaimVM(d) \/ ClaimVMError(d)
        \/ GetAssignedVM(d) \/ PatchAssignedVM(d)
        \/ VerifyVMI(d) \/ VMINotReady(d)
        \/ NotifyGateway(d)
        \/ GetCloneNotFound(d) \/ CreateClone(d) \/ CloneInProgress(d)
        \/ CloneSucceeded(d) \/ FinalizeClonedVM(d) \/ FinalizeClonedVMError(d)
        \/ EnsureBoundVM(d) \/ EnsureBoundVMError(d)
        \/ KopfApplyPatch(d)
        \/ HandlerRecalled(d)
    \/ Environment
    \/ TimePasses

SpecLifetime == InitLifetime /\ [][NextLifetime]_vars

-----------------------------------------------------------------------------
(* Properties *)

Phase(d) == last_phase(d)
HasKey(dict, k) == k \in DOMAIN dict
Label(v, k) == Get(vms[v].labels, k)

\* the VMs bound to desktop d: labelled cyberdesk-instance=d, or restored as
\* the target of d's clone operation
BoundVMs(d) ==
    {v \in VMNames : vms[v].exists /\ (Label(v, L_INSTANCE) = d \/ v = d)}

\* the clone operation objects of desktop d
CloneOps(d) == {c \in CloneNames : clones[c].exists /\ clones[c].target = d}

\* C1 (P1, I1): no Cyberdesk status has both virtualMachineRef and
\* cloneOperationName set.
MutualExclusion ==
    \A d \in Desks : ~(Truthy(vm_ref(d)) /\ Truthy(clone_op_name(d)))

\* C1 witness: a Cyberdesk whose clone operation succeeded holds a vmRef
\* (the status that carried cloneOperationName was rewritten).
ClonedDeskBound ==
    \E d \in Desks : Phase(d) = "Cloned" /\ vm_ref(d) = d

\* I2 as a state predicate
BoundPhaseHasFields ==
    \A d \in Desks :
        Phase(d) \in {"AssignedFromPool", "Cloned"} =>
            /\ Truthy(vm_ref(d))
            /\ HasKey(status[d], "startTime")
            /\ HasKey(status[d], "expiryTime")

\* the step that writes a bound phase writes the three fields with it
BoundPhaseWrittenWithFields ==
    \A d \in Desks :
        (/\ Phase(d) \notin {"AssignedFromPool", "Cloned"}
         /\ Get(status'[d], "lastPhase") \in {"AssignedFromPool", "Cloned"})
        => /\ ~Truthy(vm_ref(d))
           /\ ~HasKey(status[d], "startTime")
           /\ ~HasKey(status[d], "expiryTime")
           /\ Truthy(Get(status'[d], "virtualMachineRef"))
           /\ HasKey(status'[d], "startTime")
           /\ HasKey(status'[d], "expiryTime")

\* C2 (P2, I2): whenever the phase is AssignedFromPool or Cloned, vmRef,
\* startTime and expiryTime are set, and the status patch that writes the
\* phase is the one that writes the three fields.
AtomicBinding ==
    [](BoundPhaseHasFields) /\ [][BoundPhaseWrittenWithFields]_vars

\* C2 witness: a Cyberdesk was assigned a VM of the warm pool.
AssignedFromPoolReached ==
    \E d \in Desks : Phase(d) = "AssignedFromPool" /\ vm_ref(d) \in PoolVMs

\* C3: of two reconcilers that run the pool claimer concurrently, at most
\* one gets a given VM: no two running passes hold the same
\* assigned_vm_name.
RaceFreeClaim ==
    \A d1, d2 \in Desks :
        (d1 # d2 /\ assigned[d1] # Null) => assigned[d1] # assigned[d2]

\* C4 (P4): for any VM name v at most one Cyberdesk has vmRef = v.
SingleBinding ==
    \A d1, d2 \in Desks :
        (d1 # d2 /\ Truthy(vm_ref(d1))) => vm_ref(d1) # vm_ref(d2)

\* P3 as a state predicate: a VM labelled pool/warm=ready carries no
\* cyberdesk-instance label, and a VM that carries one is claimed and in use
ReadyVMUnbound ==
    \A v \in VMNames :
        /\ Label(v, L_WARM) = "ready" =>
              /\ ~HasKey(vms[v].labels, L_INSTANCE)
              /\ ~HasKey(vms[v].tmpl, L_INSTANCE)
        /\ HasKey(vms[v].labels, L_INSTANCE) =>
              Label(v, L_WARM) = "claimed" /\ Label(v, L_IN_USE) = "true"

\* the update that takes a VM out of pool/warm=ready sets claimed and in-use
\* together, and the instance label is put on a VM that is already claimed
ClaimedInOneUpdate ==
    \A v \in VMNames :
        /\ (Label(v, L_WARM) = "ready" /\ Get(vms'[v].labels, L_WARM) # "ready")
            => /\ Get(vms'[v].labels, L_WARM) = "claimed"
               /\ Get(vms'[v].labels, L_IN_USE) = "true"
        /\ (~HasKey(vms[v].labels, L_INSTANCE) /\ HasKey(vms'[v].labels, L_INSTANCE))
            => Label(v, L_WARM) = "claimed" /\ Label(v, L_IN_USE) = "true"

\* C5 (P3, I3): no VM is labelled pool/warm=ready together with
\* cyberdesk-instance, and a VM gets the cyberdesk-instance label only after
\* a claim patch that set pool/warm=claimed and pool/in-use=true at once.
PoolSafety ==
    [](ReadyVMUnbound) /\ [][ClaimedInOneUpdate]_vars

\* C5 witness: a VM of the pool carries a cyberdesk-instance label.
PoolVMLabelled ==
    \E v \in PoolVMs : Label(v, L_INSTANCE) \in Desks

\* C6 (I5): for any desktop at most one clone operation object exists and at
\* most one VM is bound to it.
OneCloneOneVM ==
    \A d \in Desks : Cardinality(CloneOps(d)) <= 1 /\ Cardinality(BoundVMs(d)) <= 1

\* C7: every external effect of the reconciler of d (a claimed or labelled
\* VM, a clone object, a gateway POST) is preceded by a persisted status
\* transition of d.
IntentBeforeEffect ==
    \A d \in Desks :
        (\/ assigned[d] # Null
         \/ BoundVMs(d) # {}
         \/ CloneOps(d) # {}
         \/ d \in gateway)
        => Truthy(Phase(d))

\* the handler of every Cyberdesk has ended for good
AllSettled ==
    \A d \in desks : pc[d] = "idle" /\ hstate[d] \in {"succeeded", "failed"}

\* the VMs taken out of the warm pool
ClaimedVMs == {v \in PoolVMs : Label(v, L_WARM) = "claimed"}

\* in the runs without aborted passes every claimed VM ends as the vmRef of a
\* Cyberdesk
ClaimedVMsAreBound ==
    AllSettled => ClaimedVMs \subseteq {vm_ref(d) : d \in desks}

\* C8 (P6): aborting passes preserves I1, I2, I3 and I5, and the resumed
\* reconciliation ends in the state of the run without aborts, where the
\* claimed VMs are the bound ones.
CrashIdempotence ==
    /\ MutualExclusion
    /\ BoundPhaseHasFields
    /\ ReadyVMUnbound
    /\ OneCloneOneVM
    /\ ClaimedVMsAreBound

\* a clone object exists only for a desktop whose status went through
\* CloningInitiated
CloneObjectTracked ==
    \A d \in Desks :
        CloneOps(d) # {} =>
            Phase(d) \in {"CloningInitiated", "Cloned", "CloneFailed", "CloneTimeout"}

\* the pass that leaves the fresh state for cloning writes the clone name
\* and creates no clone object; a clone object is created only while the
\* status holds its name
StatusBeforeCloneObject ==
    \A d \in Desks :
        /\ (Phase(d) # "CloningInitiated"
                /\ Get(status'[d], "lastPhase") = "CloningInitiated")
            => /\ Phase(d) = Null
               /\ Get(status'[d], "cloneOperationName") = CloneOpName(d)
               /\ ~Truthy(Get(status'[d], "virtualMachineRef"))
               /\ ~clones'[CloneOpName(d)].exists
               /\ retry'[d] = retry[d] + 1 /\ hstate'[d] = "pending"
        /\ (~clones[CloneOpName(d)].exists /\ clones'[CloneOpName(d)].exists)
            => /\ clone_op_name(d) = CloneOpName(d)
               /\ clones'[CloneOpName(d)].target = d
               /\ pc[d] = "createclone"

\* C9: the fresh pass without claimable VM writes CloningInitiated with
\* cloneOpName = clone-for-<name>, asks for a retry and creates no clone
\* object; clone objects are created only in passes that started with the
\* name persisted.
StatusFirstCloning ==
    [](CloneObjectTracked) /\ [][StatusBeforeCloneObject]_vars

\* C9 witness: a clone object exists while its desktop is CloningInitiated.
CloneObjectCreated ==
    \E d \in Desks :
        clones[CloneOpName(d)].exists /\ Phase(d) = "CloningInitiated"

\* the direct successors of the phases
ForwardTransitions ==
    {<<Null, "AssignedFromPool">>, <<Null, "CloningInitiated">>,
     <<"CloningInitiated", "Cloned">>, <<"CloningInitiated", "CloneFailed">>,
     <<"CloningInitiated", "CloneTimeout">>}

\* C10: a pass performs at most one forward transition: the one status
\* write of a pass keeps the phase or moves it to a direct successor.
OneForwardTransition ==
    [][\A d \in Desks :
          \/ Get(status'[d], "lastPhase") = Phase(d)
          \/ /\ <<Phase(d), Get(status'[d], "lastPhase")>> \in ForwardTransitions
             /\ pc[d] = "commit" /\ pc'[d] = "idle"]_vars

\* C10 witness: a Cyberdesk has gone from CloningInitiated to CloneTimeout.
CloneTimeoutReached ==
    \E d \in Desks : Phase(d) = "CloneTimeout" /\ retry[d] >= max_clone_wait_retries

\* C11 (pool hit): the pass of d that writes phase AssignedFromPool with
\* vmRef = v leaves v, a Running VM of the warm pool, labelled
\* pool/warm=claimed, pool/in-use=true and cyberdesk-instance=d, without
\* owner references, and has issued the gateway POST for d (where a gateway
\* URL is configured).
PoolHit ==
    [][\A d \in Desks :
          (/\ Phase(d) # "AssignedFromPool"
           /\ Get(status'[d], "lastPhase") = "AssignedFromPool")
          => LET v == Get(status'[d], "virtualMachineRef") IN
                /\ v \in PoolVMs
                /\ vms'[v].exists /\ vms'[v].printableStatus = "Running"
                /\ Get(vms'[v].labels, L_WARM) = "claimed"
                /\ Get(vms'[v].labels, L_IN_USE) = "true"
                /\ Get(vms'[v].labels, L_INSTANCE) = d
                /\ ~vms'[v].owner
                /\ Truthy(GATEWAY_BASE_URL) => posts'[d] > 0]_vars

\* the status of a desktop whose clone succeeded at clock value t
ClonedStatus(d, t) ==
    [virtualMachineRef |-> d,
     startTime |-> isoformat(t),
     expiryTime |-> isoformat(t + timeoutMs[d] \div 1000),
     lastPhase |-> "Cloned"]

\* C12 (clone success): the pass that found the clone Succeeded patches the
\* target VM, named as the desktop (runStrategy Always, hostname, template
\* labels), and writes {vmRef = name, phase Cloned, startTime = now,
\* expiryTime = startTime + timeoutMs, no cloneOpName}; if the patch of the
\* VM fails the status stays CloningInitiated with its cloneOpName and the
\* pass is retried.
CloneSuccess ==
    [][\A d \in Desks :
          /\ (pc[d] = "finalize" /\ pc'[d] = "commit")
              => /\ vms'[d].exists
                 /\ vms'[d].runStrategy = "Always" /\ vms'[d].hostname = d
                 /\ Get(vms'[d].tmpl, L_INSTANCE) = d
                 /\ MergePatch(status[d], pend'[d].patch) = ClonedStatus(d, now)
                 /\ pend'[d].outcome = "return"
          /\ (pc[d] = "finalize" /\ pc'[d] = "idle")
              => /\ status'[d] = status[d] /\ vms'[d] = vms[d]
                 /\ Phase(d) = "CloningInitiated"
                 /\ clone_op_name(d) = CloneOpName(d)
                 /\ hstate'[d] = "pending"
          /\ (Phase(d) # "Cloned" /\ Get(status'[d], "lastPhase") = "Cloned")
              => /\ Phase(d) = "CloningInitiated"
                 /\ \E t \in 0..MaxClock : status'[d] = ClonedStatus(d, t)
                 /\ hstate'[d] = "succeeded"]_vars

\* C12 witness: a Cyberdesk is Cloned with the times of a start after the
\* first clock value.
ClonedWithTimes ==
    \E d \in Desks : now > 0 /\ status[d] = ClonedStatus(d, now)

\* the VM carries what the post-bind finalization gives the VM of desktop d
Finalized(vm, d) ==
    /\ vm.exists
    /\ Get(vm.labels, L_APP) = "cyberdesk"
    /\ Get(vm.labels, L_INSTANCE) = d
    /\ Get(vm.labels, L_MANAGED) = MANAGED_BY
    /\ vm.runStrategy = "Always"
    /\ Get(vm.tmpl, L_APP) = "cyberdesk"
    /\ Get(vm.tmpl, L_INSTANCE) = d
    /\ Get(vm.tmpl, L_MANAGED) = MANAGED_BY
    /\ Get(vm.tmpl, L_DOMAIN) = d
    /\ vm.hostname = d

\* C13: whenever a Cyberdesk d has phase AssignedFromPool or Cloned with
\* vmRef = v, VM v has the top-level labels app, cyberdesk-instance=d and
\* managed-by, runStrategy Always, the template labels with the same identity
\* and the domain label d, and the template hostname d.
PostBindFinalization ==
    \A d \in Desks :
        (Phase(d) \in {"AssignedFromPool", "Cloned"} /\ vm_ref(d) \in VMNames)
            => Finalized(vms[vm_ref(d)], d)

\* the number of the reconcile attempt that starts next or is running: kopf
\* counts the retries from 0
Attempt(d) == retry[d] + 1

\* a pass of d is about to look at a clone object that is in progress
ObservesInProgress(d) ==
    ClonePass(d) /\ clone_obj(d).exists /\ InProgress(clone_obj(d).phase)

\* C14 (clone timeout): with the clone in progress, the reconciler times out
\* (deletes the clone object, writes CloneTimeout) on the attempt number
\* max_clone_wait_retries = 20: never on an earlier attempt, and it does not
\* wait on that attempt or a later one.
TimeoutAtTwentiethAttempt ==
    \A d \in Desks :
        /\ pc[d] = "delclone" => Attempt(d) >= max_clone_wait_retries
        /\ (ObservesInProgress(d) /\ Attempt(d) >= max_clone_wait_retries)
            => ~ENABLED CloneInProgress(d)

\* the handler of d takes a step
HandlerStep(d) == pc'[d] # pc[d] \/ retry'[d] # retry[d]

\* a pass of d is about to look at a clone object with the given phase
Observes(d, phase) ==
    ClonePass(d) /\ clone_obj(d).exists /\ clone_obj(d).phase = phase

\* C15 (clone failure): the pass that finds the clone Failed writes phase
\* CloneFailed without cloneOpName and without vmRef and ends with a
\* permanent error; the pass that finds it Unknown changes no status and ends
\* with a retryable error.
CloneFailure ==
    [][\A d \in Desks :
          /\ (Observes(d, "Failed") /\ pc'[d] = "commit")
              => /\ pend'[d].outcome = "permanent"
                 /\ LET written == MergePatch(status[d], pend'[d].patch) IN
                      /\ Get(written, "lastPhase") = "CloneFailed"
                      /\ ~HasKey(written, "cloneOperationName")
                      /\ ~HasKey(written, "virtualMachineRef")
          /\ (Phase(d) # "CloneFailed" /\ Get(status'[d], "lastPhase") = "CloneFailed")
              => /\ Phase(d) = "CloningInitiated"
                 /\ clones[CloneOpName(d)].phase = "Failed"
                 /\ ~HasKey(status'[d], "cloneOperationName")
                 /\ ~HasKey(status'[d], "virtualMachineRef")
                 /\ hstate'[d] = "failed"
          /\ (Observes(d, "Unknown") /\ HandlerStep(d))
              => /\ status'[d] = status[d]
                 /\ pc'[d] = "idle" /\ retry'[d] = retry[d] + 1
                 /\ hstate'[d] = "pending"]_vars

\* C15 witness: a Cyberdesk whose clone failed is CloneFailed for good, after
\* at least one pass that waited.
CloneFailedReached ==
    \E d \in Desks :
        /\ Phase(d) = "CloneFailed" /\ hstate[d] = "failed"
        /\ clones[CloneOpName(d)].phase = "Failed"
        /\ retry[d] > 2

\* C16 (bounded recovery): a Cyberdesk leaves the cloning state within the
\* maximum number of attempts whatever its clone operation reports: none
\* is still CloningInitiated once the attempts made exceed
\* max_clone_wait_retries (the attempt on which the code times out, one past
\* the 20th, is allowed for).
BoundedRecovery ==
    \A d \in Desks :
        (Phase(d) = "CloningInitiated" /\ pc[d] = "idle")
            => retry[d] <= max_clone_wait_retries + 1

\* the external status the mapping table of the specification gives a phase
MappedStatus(phase) ==
    CASE phase \in {"Pending", "Scheduling", "Scheduled", "Running"} -> "pending"
      [] phase = "Succeeded" -> "terminated"
      [] OTHER -> "error"

\* C17 (phase mapping): the status the Phase Synchronizer compares the row
\* with and the status it writes are pending for Pending, Scheduling,
\* Scheduled and Running, terminated for Succeeded and error for Failed,
\* Unknown and any other value; it never writes running.
PhaseMapping ==
    /\ [](\A v \in VMNames :
            sync[v].pc = "update"
                => /\ desired(sync[v].new) = MappedStatus(sync[v].new)
                   /\ sync[v].current_db # MappedStatus(sync[v].new))
    /\ [][\A v \in VMNames :
            (sync[v].pc # "idle" /\ sync'[v].pc = "idle")
                => \A i \in DOMAIN rows :
                      rows'[i] # rows[i]
                          => /\ i = sync[v].instance_id
                             /\ rows'[i] = MappedStatus(sync[v].new)
                             /\ rows'[i] # "running"]_vars

\* C17 witness: the row of a desktop whose VMI is in a phase the enum does
\* not know has been set to error.
UnrecognizedPhaseSynced ==
    \E d \in Desks :
        /\ vmis[d].phase = "WaitingForSync" /\ seenPhase[d] = "WaitingForSync"
        /\ sync[d].pc = "idle" /\ rows[d] = "error"

\* the VMI of v has ended and every change of its phase has been handled
PhaseSettled(v) ==
    /\ vmis[v].exists /\ vmis[v].phase \in {"Succeeded", "Failed"}
    /\ seenPhase[v] = vmis[v].phase
    /\ sync[v].pc = "idle"

\* C18 (P5, I4, eventual sync): for a desktop bound to a VM whose VMI,
\* labelled with the desktop's id, has reached Succeeded or Failed, once the
\* last phase change has been handled the row of the desktop holds the
\* status mapped from that phase.
EventualSync ==
    \A d \in desks :
        LET v == vm_ref(d) IN
            (/\ v \in VMNames
             /\ Get(vmiLabels[v], L_INSTANCE) = d
             /\ rows[d] # Null
             /\ PhaseSettled(v))
            => rows[d] = MappedStatus(vmis[v].phase)

\* the snapshot of the conditions has Ready with status True
HasReadyTrue(snapshot) ==
    \E i \in 1..Len(snapshot) :
        snapshot[i].type = "Ready" /\ snapshot[i].status = "True"

\* the Readiness Notifier handles a conditions event of the VMI
WatcherHandles(v) == seenConds'[v] # seenConds[v]

\* this step issues exactly one POST, for the instance id
PostIssuedFor(id) ==
    /\ posts'[id] = posts[id] + 1
    /\ \A i \in DOMAIN posts : i # id => posts'[i] = posts[i]

\* Ready goes from a value that is not True in the old snapshot to True in
\* the new one
ReadyTransition(v) ==
    HasReadyTrue(conds[v]) /\ ~HasReadyTrue(seenConds[v])

\* C19 as stated (readiness trigger): for every conditions event of a VMI
\* labelled app=cyberdesk and cyberdesk-instance=<id> the notifier issues a
\* POST for <id> if and only if the new snapshot has Ready=True and the old
\* one has not.
ReadinessTrigger ==
    [][\A v \in VMNames :
          (/\ WatcherHandles(v)
           /\ Get(vmiLabels[v], L_APP) = "cyberdesk"
           /\ Get(vmiLabels[v], L_INSTANCE) \in Desks)
          => IF ReadyTransition(v)
             THEN PostIssuedFor(Get(vmiLabels[v], L_INSTANCE))
             ELSE posts' = posts]_vars

\* C19 as amended: ... if and only if the new snapshot has Ready=True, the
\* old one has not, and a gateway base URL is configured; without a URL, and
\* for a VMI without the labels, no POST is issued.
ReadinessTriggerWithGateway ==
    [][\A v \in VMNames :
          WatcherHandles(v)
          => IF /\ Get(vmiLabels[v], L_APP) = "cyberdesk"
                /\ Get(vmiLabels[v], L_INSTANCE) \in Desks
                /\ ReadyTransition(v)
                /\ GATEWAY_BASE_URL # Null
             THEN PostIssuedFor(Get(vmiLabels[v], L_INSTANCE))
             ELSE posts' = posts]_vars

\* C19 witness: the notifier has issued a second POST for a desktop whose
\* VMI became Ready again, and has handled every change.
NotifiedOnReady ==
    \E d \in Desks :
        /\ posts[d] = 2 /\ d \in gateway
        /\ HasReadyTrue(conds[d]) /\ seenConds[d] = conds[d]

\* d is bound, its handler has ended, the VMI of its VM has Ready=True and
\* the Readiness Notifier has handled every change of the conditions
ReadyAndSettled(d) ==
    /\ Phase(d) \in {"AssignedFromPool", "Cloned"}
    /\ hstate[d] = "succeeded" /\ pc[d] = "idle"
    /\ vm_ref(d) \in VMNames
    /\ vmis[vm_ref(d)].exists
    /\ HasReadyTrue(conds[vm_ref(d)])
    /\ seenConds[vm_ref(d)] = conds[vm_ref(d)]

\* C20 (at-least-once notification): with a gateway base URL configured,
\* once a desktop is bound (AssignedFromPool or Cloned), its VMI has
\* Ready=True and the operator has nothing left to do for it, the gateway has
\* received a POST /cyberdesk/<id>/ready, also when a POST attempt failed.
AtLeastOnceNotification ==
    \A d \in desks :
        (GATEWAY_BASE_URL # Null /\ ReadyAndSettled(d)) => d \in gateway

\* VM v is claimed for desktop d: in use and labelled with d's name
ClaimedFor(v, d) ==
    /\ vms[v].exists
    /\ Label(v, L_IN_USE) = "true"
    /\ Label(v, L_INSTANCE) = d

\* the VMI of v does not pass the readiness gate of the pool path: it is
\* missing, not Running or its first interface has no address
GateFails(v) == ~vmis[v].exists \/ ~VMIFullyReady(vmis[v])

\* C27 (readiness-gate retry): while a VM v of the pool stays claimed for
\* desktop d and its VMI fails the readiness gate, the passes of d hold no
\* other VM than v, record no clone operation and bind no other VM: a pass
\* after a failed readiness gate resumes with v.
GateRetryResumesSameVM ==
    \A d \in Desks : \A v \in PoolVMs :
        (ClaimedFor(v, d) /\ GateFails(v))
            => /\ assigned[d] \in {Null, v}
               /\ ~Truthy(clone_op_name(d))
               /\ ~Truthy(Get(pend[d].patch, "cloneOperationName"))
               /\ Truthy(vm_ref(d)) => vm_ref(d) = v

\* what the readiness gate asks of the VMI: Running, and some interface with
\* an address
GateCondition(vmi) ==
    /\ vmi.exists /\ vmi.phase = "Running"
    /\ \E i \in 1..Len(vmi.interfaces) : Truthy(vmi.interfaces[i])

\* C28 (readiness gate): a pass that has claimed a VM goes on to the
\* notification only if the VMI of that name is Running and has an interface
\* with an address, whichever interface that is; and with such a VMI the pass
\* can go on.
ReadinessGate ==
    /\ [](\A d \in Desks :
            (pc[d] = "getvmi" /\ GateCondition(vmis[assigned[d]]))
                => ENABLED VerifyVMI(d))
    /\ [][\A d \in Desks :
            (pc[d] = "getvmi" /\ pc'[d] = "notify")
                => GateCondition(vmis[assigned[d]])]_vars

\* an item of the list result passes the selection: pool/warm=ready, not
\* pool/in-use=true, printableStatus Running
Selectable(item) ==
    /\ Get(item.labels, L_WARM) = "ready"
    /\ Get(item.labels, L_IN_USE) # "true"
    /\ item.printableStatus = "Running"

\* the claim patch of d's claimer is applied in this step
ClaimPatched(d) == pc[d] = "claim" /\ pc'[d] = "getvm"

\* C29 (selection predicate): the claim patch goes to a VM that passes the
\* selection in the list result, and to no other VM; the candidates the loop
\* keeps all pass the selection; and a claimer whose list holds no such VM
\* returns none (the pass records the clone operation) without patching a VM.
SelectionPredicate ==
    /\ [](\A d \in Desks : \A i \in 1..Len(cand[d]) : Selectable(cand[d][i]))
    /\ [][\A d \in Desks :
            /\ ClaimPatched(d)
                => /\ Selectable(Head(cand[d]))
                   /\ assigned'[d] = Head(cand[d]).name
                   /\ \A v \in VMNames : v # assigned'[d] => vms'[v] = vms[v]
            /\ (pc[d] = "idle" /\ pc'[d] = "claim")
                => \A v \in VMNames :
                      (\E i \in 1..Len(cand'[d]) : cand'[d][i].name = v)
                          <=> /\ vms[v].exists
                              /\ Label(v, L_WARM) = "ready"
                              /\ Label(v, L_IN_USE) # "true"
                              /\ vms[v].printableStatus = "Running"
            /\ (pc[d] = "idle" /\ pc'[d] = "commit" /\ FreshState(d))
                => /\ vms' = vms
                   /\ \A v \in VMNames :
                        ~(/\ vms[v].exists
                          /\ Label(v, L_WARM) = "ready"
                          /\ Label(v, L_IN_USE) # "true"
                          /\ vms[v].printableStatus = "Running")]_vars

\* C29 witness: the claimer has skipped a ready VM that is not Running and
\* claimed the next one.
SkippedAndClaimed ==
    \E d \in Desks :
        /\ assigned[d] = "vmb" /\ Label("vmb", L_WARM) = "claimed"
        /\ vms["vma"] = WarmVM("Starting", FALSE)

\* C30 (claimer error handling): a failed claim patch changes no VM and makes
\* the claimer go on with the next candidate of its list; the claimer ends
\* without a VM only after the last candidate, and never by raising; a failed
\* list call ends the pass with a retryable error, the status and the cluster
\* unchanged and no clone operation recorded.
ClaimerErrorHandling ==
    [][\A d \in Desks :
          /\ (pc[d] = "claim" /\ pc'[d] = "claim" /\ cand'[d] # cand[d])
              => /\ cand'[d] = Tail(cand[d])
                 /\ vms' = vms /\ assigned'[d] = Null
          /\ (pc[d] = "claim" /\ pc'[d] = "commit")
              => /\ Len(cand[d]) = 1
                 /\ vms' = vms
          /\ pc[d] = "claim"
              => /\ retry'[d] = retry[d]
                 /\ status'[d] = status[d]
          /\ (pc[d] = "idle" /\ FreshState(d) /\ retry'[d] = retry[d] + 1)
              => /\ pc'[d] = "idle"
                 /\ status'[d] = status[d]
                 /\ pend'[d] = NoPend
                 /\ vms' = vms /\ clones' = clones]_vars

\* C30 witness: the claim patch of the first candidate failed, the VM is
\* still ready, and the claimer has claimed the second.
SecondCandidateClaimed ==
    \E d \in Desks :
        /\ desks = {d}
        /\ assigned[d] = "vmb" /\ Label("vmb", L_WARM) = "claimed"
        /\ vms["vma"] = WarmVM("Running", FALSE)

\* the status of d once the patch of the pass that has just ended is applied
StatusWritten(d) == MergePatch(status[d], pend'[d].patch)

\* C25 (bound steady state, lookup failure): a pass on a bound Cyberdesk
\* whose VM vmRef does not exist (404) ends by clearing the status, so that
\* the next pass provisions anew; a pass that fails on an existing VM ends
\* with a retryable error and the status unchanged.
SteadyLookupFailure ==
    [][\A d \in Desks :
          /\ (SteadyPass(d) /\ ~vms[vm_ref(d)].exists /\ HandlerStep(d))
              => /\ pc'[d] = "commit"
                 /\ ~Truthy(Get(StatusWritten(d), "virtualMachineRef"))
                 /\ ~Truthy(Get(StatusWritten(d), "lastPhase"))
          /\ (SteadyPass(d) /\ vms[vm_ref(d)].exists /\ retry'[d] # retry[d])
              => /\ retry'[d] = retry[d] + 1
                 /\ pc'[d] = "idle" /\ hstate'[d] = "pending"
                 /\ status'[d] = status[d] /\ pend'[d] = NoPend]_vars

\* the identity labels of VM v name desktop d, on the VM and on its template
IdentityLabels(vm, d) ==
    /\ Get(vm.labels, L_INSTANCE) = d
    /\ Get(vm.tmpl, L_INSTANCE) = d

\* C26 (steady-state idempotence): a pass on a bound Cyberdesk d with its
\* times set leaves vmRef, phase, startTime and expiryTime as they are and
\* leaves the identity labels of VM vmRef as they were after binding, for a
\* VM of the pool as for a cloned one; a second application of the VM patch
\* changes nothing more.
SteadyStateIdempotence ==
    [][\A d \in Desks :
          (/\ SteadyPass(d) /\ pc'[d] = "commit"
           /\ HasKey(status[d], "startTime") /\ HasKey(status[d], "expiryTime"))
          => LET v == vm_ref(d) IN
                /\ StatusWritten(d) = status[d]
                /\ Get(vms'[v].labels, L_INSTANCE) = Get(vms[v].labels, L_INSTANCE)
                /\ Get(vms'[v].tmpl, L_INSTANCE) = Get(vms[v].tmpl, L_INSTANCE)
                /\ IdentityLabels(vms[v], d) => IdentityLabels(vms'[v], d)
                /\ PatchedVM(vms'[v], EnsurePatchBody(v)) = vms'[v]]_vars

\* the delete handler of d runs in this step
DeleteHandlerRuns(d) ==
    /\ hstate[d] = "deleting"
    /\ hstate'[d] = "deleted" \/ retry'[d] # retry[d]

\* C23 (delete dispatch): the delete handler of a Cyberdesk with vmRef
\* deletes the VM named vmRef, no other VM and no clone object; without
\* vmRef but with cloneOperationName it deletes the clone object of that
\* name, no other one and no VM; with neither it deletes nothing and
\* succeeds.
DeleteDispatch ==
    [][\A d \in Desks :
          DeleteHandlerRuns(d)
          => /\ Truthy(vm_ref(d))
                => /\ clones' = clones
                   /\ \A v \in VMNames : v # vm_ref(d) => vms'[v] = vms[v]
                   /\ hstate'[d] = "deleted" => ~vms'[vm_ref(d)].exists
             /\ (~Truthy(vm_ref(d)) /\ Truthy(clone_op_name(d)))
                => /\ vms' = vms
                   /\ \A c \in CloneNames :
                        c # clone_op_name(d) => clones'[c] = clones[c]
                   /\ clones'[clone_op_name(d)] \in {NoClone, clones[clone_op_name(d)]}
                   /\ hstate'[d] = "deleted"
             /\ (~Truthy(vm_ref(d)) /\ ~Truthy(clone_op_name(d)))
                => /\ vms' = vms /\ clones' = clones
                   /\ hstate'[d] = "deleted"]_vars

\* C23 witness: a Cyberdesk that was cloning when deleted is gone, with its
\* clone object deleted and the target VM, restored meanwhile, left alone.
CloningDeskDeleted ==
    \E d \in Desks :
        /\ hstate[d] = "deleted"
        /\ ~Truthy(vm_ref(d)) /\ clone_op_name(d) = CloneOpName(d)
        /\ ~clones[CloneOpName(d)].exists
        /\ vms[d].exists

\* the clone object named in the status of d is still there: its best-effort
\* delete has failed
CloneDeleteFailed(d) ==
    /\ ~Truthy(vm_ref(d)) /\ Truthy(clone_op_name(d))
    /\ clones[clone_op_name(d)].exists

\* C24 (cascading cleanup): once the deletion of a Cyberdesk has been
\* handled, no VM claimed or cloned for it and no clone object of it is
\* left, in whatever state it was deleted (a clone object whose delete call
\* failed aside).
CascadingCleanup ==
    \A d \in Desks :
        (hstate[d] = "deleted" /\ ~CloneDeleteFailed(d))
            => BoundVMs(d) = {} /\ CloneOps(d) = {}

\* the expiryTime of d's status is a time that the clock has reached
ExpiryReached(d) ==
    /\ HasKey(status[d], "expiryTime")
    /\ \E t \in 0..now : status[d].expiryTime = isoformat(t)

\* C21 (expiry check): the timer of a Cyberdesk deletes the Cyberdesk
\* resource exactly when its status has an expiryTime that parses and that
\* the clock has reached (now >= expiryTime): not without expiryTime, not
\* before it, not with an expiryTime that does not parse; it deletes no VM
\* (nor any other object) itself; and after a failed delete the timer
\* deletes at its next run.
ExpiryCheck ==
    /\ [](\A d \in Desks :
            TimerFires(d) => (ENABLED TimeoutCheckExpired(d) <=> ExpiryReached(d)))
    /\ [][\A d \in Desks :
            (hstate[d] # "deleting" /\ hstate'[d] = "deleting")
                => /\ ExpiryReached(d)
                   /\ desks' = desks /\ status' = status
                   /\ vms' = vms /\ vmis' = vmis /\ clones' = clones]_vars

\* C21 witness: the timer has deleted a Cyberdesk at the very clock value of
\* its expiryTime, leaving its VM in place.
DeletedAtExpiry ==
    \E d \in Desks :
        /\ d \in desks /\ hstate[d] = "deleting"
        /\ status[d].expiryTime = isoformat(now)
        /\ vms[vm_ref(d)].exists

\* the teardown of d is over: the Cyberdesk is gone, so are its VM and the
\* VMI, and the Phase Synchronizer has handled every change
TornDown(d) ==
    /\ hstate[d] = "deleted"
    /\ vm_ref(d) \in VMNames
    /\ ~vms[vm_ref(d)].exists /\ ~vmis[vm_ref(d)].exists
    /\ sync[vm_ref(d)].pc = "idle"
    /\ seenPhase[vm_ref(d)] = vmis[vm_ref(d)].phase

\* C22 (expiry teardown): once the timer has deleted an expired Cyberdesk,
\* the delete handler has deleted its VM and the VMI has disappeared, the
\* row of the desktop is terminated.
ExpiryTeardown ==
    \A d \in Desks : TornDown(d) => rows[d] = "terminated"


\* the favourable end of the teardown: the row of a torn down desktop that
\* the Phase Synchronizer did mark terminated
TornDownTerminated ==
    \E d \in Desks : TornDown(d) /\ rows[d] = "terminated"


\* a step of a handler of the operator, as opposed to one of KubeVirt or of
\* another actor
OperatorStep == pc' # pc

\* the labels of before that the operator does not mean to set are there
\* afterwards, with their values
ForeignLabelsKept(before, after) ==
    \A k \in DOMAIN before \ OperatorLabelKeys :
        k \in DOMAIN after /\ after[k] = before[k]

\* C31 (label preservation): every patch the operator applies to a VM keeps
\* each label of the VM whose key the operator does not set, with its value,
\* also when another actor changed that label after the operator read the VM.
LabelPreservation ==
    [][OperatorStep =>
         \A v \in VMNames :
            (vms[v].exists /\ vms'[v].exists) =>
                /\ ForeignLabelsKept(vms[v].labels, vms'[v].labels)
                /\ ForeignLabelsKept(vms[v].tmpl, vms'[v].tmpl)]_vars


\* the VMI carries app=cyberdesk and a cyberdesk-instance label
OperatorVMI(v) ==
    /\ Get(vmiLabels[v], L_APP) = "cyberdesk"
    /\ Truthy(Get(vmiLabels[v], L_INSTANCE))

\* a step of one of the two watchers
WatcherStep ==
    \/ sync' # sync \/ seenPhase' # seenPhase
    \/ seenConds' # seenConds \/ posts' # posts

\* C32 (synchronizer filter and frame): the Phase Synchronizer goes to the
\* external store only for a VMI labelled app=cyberdesk that has a
\* cyberdesk-instance label, and changes no row but the one keyed by that
\* label's value; for any other VMI it writes nothing; and no step of the
\* Synchronizer or of the Readiness Notifier changes a Cyberdesk status.
SynchronizerFilterAndFrame ==
    /\ [](\A v \in VMNames :
            sync[v].pc # "idle" =>
                OperatorVMI(v) /\ sync[v].instance_id = Get(vmiLabels[v], L_INSTANCE))
    /\ [][WatcherStep =>
            /\ status' = status
            /\ rows' # rows =>
                 \E v \in VMNames :
                    /\ sync[v].pc = "update" /\ sync'[v].pc = "idle"
                    /\ \A i \in DOMAIN rows :
                          rows'[i] # rows[i] => i = sync[v].instance_id]_vars

\* C32 witness: the VMI of a warm VM (app label, no instance label) has
\* failed and the Synchronizer has handled the change, and every row is as
\* it was.
PoolMemberIgnored ==
    \E v \in VMNames :
        /\ vmis[v].exists /\ ~OperatorVMI(v)
        /\ Get(vmiLabels[v], L_APP) = "cyberdesk"
        /\ vmis[v].phase = "Failed" /\ seenPhase[v] = "Failed"
        /\ sync[v].pc = "idle"
        /\ rows = [d \in Desks |-> "pending"]


\* the delete handler of d can return in this state, which lets the
\* Cyberdesk go
DeleteCanComplete(d) == ENABLED (cyberdesk_delete(d) /\ hstate'[d] = "deleted")

\* C33 (delete error handling): with vmRef set, a VM that is already gone
\* (404, 410) counts as deleted and the handler returns; any other failure
\* of the VM delete is a retryable error, so the Cyberdesk goes only once
\* the VM is deleted or gone, and the handler is called again.  Without
\* vmRef, a failure of the clone object's delete, 404 or other, never keeps
\* the handler from returning.
DeleteErrorHandling ==
    /\ [](\A d \in Desks :
            DeleteStarts(d) =>
                /\ (Truthy(vm_ref(d)) /\ ~vms[vm_ref(d)].exists) => DeleteCanComplete(d)
                /\ ~Truthy(vm_ref(d)) => DeleteCanComplete(d))
    /\ [][\A d \in Desks :
            DeleteHandlerRuns(d) =>
                /\ Truthy(vm_ref(d)) =>
                     IF hstate'[d] = "deleted"
                     THEN ~vms'[vm_ref(d)].exists
                     ELSE /\ d \in desks' /\ hstate'[d] = "deleting"
                          /\ retry'[d] = retry[d] + 1
                          /\ vms' = vms
                /\ ~Truthy(vm_ref(d)) => hstate'[d] = "deleted"]_vars

\* C33 witness: a bound Cyberdesk is gone after a failed and a repeated
\* delete of its VM, and the VM is gone too.
DeletedAfterRetry ==
    \E d \in Desks :
        /\ hstate[d] = "deleted" /\ retry[d] > 0
        /\ Truthy(vm_ref(d)) /\ ~vms[vm_ref(d)].exists


\* the status of d records a permanent failure
PermanentlyFailed(d) == Phase(d) \in FailedPhases

\* C34 (permanent failure is absorbing): while the phase of a Cyberdesk is
\* CloneFailed or CloneTimeout, no step of the operator changes its status,
\* claims a VM of the pool or creates a clone object for it; a pass invoked
\* in that phase, with neither vmRef nor cloneOperationName, does not start
\* provisioning again.
PermanentFailureAbsorbing ==
    [][\A d \in Desks :
          (PermanentlyFailed(d) /\ pc[d] \notin {"commit", "delclone"})
            => /\ status'[d] = status[d]
               /\ pc'[d] \notin {"claim", "createclone"}
               /\ pend'[d].patch = EmptyDict]_vars


\* the status of d has its two times, expiryTime being startTime plus the
\* timeout of d
LifetimeSet(d) ==
    /\ HasKey(status[d], "startTime") /\ HasKey(status[d], "expiryTime")
    /\ Parsable(status[d].startTime) /\ Parsable(status[d].expiryTime)
    /\ fromisoformat(status[d].expiryTime)
         = fromisoformat(status[d].startTime) + timeoutMs[d] \div 1000

\* C35 (lifetime is fixed at first binding): startTime and expiryTime are
\* written by the status patch that first sets vmRef, with expiryTime =
\* startTime + timeoutMs, and no later pass changes either of them.
LifetimeFixedAtBinding ==
    /\ [](\A d \in Desks :
            (Truthy(vm_ref(d)) \/ HasKey(status[d], "startTime")
                \/ HasKey(status[d], "expiryTime"))
            => Truthy(vm_ref(d)) /\ LifetimeSet(d))
    /\ [][\A d \in Desks :
            HasKey(status[d], "startTime") =>
                /\ Get(status'[d], "startTime") = status[d].startTime
                /\ Get(status'[d], "expiryTime") = status[d].expiryTime]_vars

\* C35 witness: a Cyberdesk bound from the pool at an earlier clock value
\* has gone through a pass of the bound steady state (only that pass sets
\* the hostname of a pool VM) and has the times of its binding.
LifetimeKeptBySteadyPass ==
    \E d \in Desks :
        /\ Phase(d) = "AssignedFromPool" /\ hstate[d] = "succeeded"
        /\ vms[vm_ref(d)].hostname = vm_ref(d)
        /\ LifetimeSet(d)
        /\ fromisoformat(status[d].startTime) < now


\* the VMI of the VM that a notification for d is about: the VM the pass of
\* d has claimed, or the VM whose VMI is labelled with d, reports Ready=True
DesktopVMIReady(d) ==
    \E v \in VMNames :
        /\ v = assigned[d] \/ Get(vmiLabels[v], L_INSTANCE) = d
        /\ vmis[v].exists
        /\ is_ready(conds[v])

\* C36 (no premature ready notification): the operator issues a POST
\* /cyberdesk/<id>/ready only when the VMI of the desktop's VM has its
\* Ready condition True at that moment; the pool path does not notify for a
\* VMI that is Running with an IP whose Ready condition is not True.
NoPrematureNotification ==
    [][\A d \in Desks : posts'[d] # posts[d] => DesktopVMIReady(d)]_vars

====
